---- MODULE Spec2Model ----
(***************************************************************************)
(* Stage orchestration engine of the infant-abcd-bids-pipeline:            *)
(* app/run.py (interface: stage list, slicing, run loop) and               *)
(* app/pipelines.py (Status, Stage lifecycle, fan-out pool).               *)
(***************************************************************************)
EXTENDS Integers, Sequences, FiniteSets, TLC

VARIABLES
    order,      \* run.py interface: the (sliced) list of stages to run
    idx,        \* position of the run loop in order (1-based), run.py:578
    pc,         \* position of the driver inside interface / Stage.run;
                \* in SpecStatus, the Status method that was called last
    status,     \* the status.json file of every stage: name -> record
    status0,    \* the status.json files as they were when the loop began
    files,      \* the expected-output paths that exist on disk
    expected_outputs_spec,  \* Stage.expected_outputs_spec: name -> list length
    call_active,                    \* class attribute, per stage class
    check_expected_outputs_active,  \* class attribute, per stage class
    remove_expected_outputs_active, \* class attribute, per stage class
    ignore_expected_outputs,        \* class attribute, per stage class
    print_commands,     \* interface argument
    ignore_flag,        \* interface argument ignore_expected_outputs
    ncpus,      \* interface argument, handed to Stage.run
    nfunc,      \* number of functional runs: config.get_bids('func')
    ustate,     \* fan-out batch: unit -> "pending" | "running" | "done"
    ucode,      \* fan-out batch: unit -> exit code (0 until done)
    result,     \* local variable result of Stage.run / teardown
    raised,     \* TRUE once teardown raised the Exception out of interface
    args,       \* interface arguments and session bundle that shape the list:
                \* types, anat_only, cleaning_json, file_mapper_json, stages
    exists,     \* the stage classes whose log directory holds a status.json
    invocation, \* number of the current invocation of interface
    starts,     \* history: name -> number of update_start_run calls on the
                \* record since it was created
    comment_arg, \* SpecStatus: the comment passed by the last update_failure step
    session_spec,   \* run.py:448: the ParameterSettings object of the session
                    \* (its instance attributes), or the exception raised
    class_attrs,    \* the class attributes of ParameterSettings
    environ,        \* os.environ: variable -> value
    params,         \* what the last call of get_params returned, and the
                    \* environment it was made in
    fmap_metadata,  \* config.get_bids('fmap_metadata'): direction -> for every
                    \* spin echo sidecar, whether IntendedFor names the target
    loop_idx,       \* _get_intended_sefmaps: the local idx, -1 while unbound
    intended_idx,   \* _get_intended_sefmaps: direction -> index, -1 while unset
    warned,         \* the directions the WARNING was printed for
    dne_list,       \* check_expected_outputs: the paths of the last
                    \* 'file not found' listing
    checked,        \* check-only: the <<session, stage>> pairs whose outputs
                    \* were checked, in order
    session,        \* run.py:429: the session the loop is at (1-based)
    nsessions       \* the number of sessions session_generator yields

vars == <<order, idx, pc, status, status0, files, expected_outputs_spec,
          call_active, check_expected_outputs_active,
          remove_expected_outputs_active, ignore_expected_outputs,
          print_commands, ignore_flag, ncpus, nfunc, ustate, ucode, result,
          raised, args, exists, invocation, starts, comment_arg,
          session_spec, class_attrs, environ, params, fmap_metadata,
          loop_idx, intended_idx, warned, dne_list, checked, session,
          nsessions>>

report == <<dne_list, checked, session, nsessions>>

sefmaps == <<fmap_metadata, loop_idx, intended_idx, warned>>

config == <<session_spec, class_attrs, environ, params, sefmaps>>

----------------------------------------------------------------------------
(* Bounds of the model *)

MaxStages == 3      \* longest sliced stage list explored by Spec
MaxOutputs == 1     \* longest expected-output list of a stage
MaxFunc == 2        \* most functional runs of a session in Spec
MaxNcpus == 1       \* largest ncpus in Spec
MaxExit == 1        \* exit codes of an external process are 0..MaxExit
MaxSelector == 3    \* longest --stage selector, in tokens
MaxPoolFunc == 7    \* most functional runs in SpecPool
MaxPoolNcpus == 7   \* largest ncpus in SpecPool
MaxFmaps == 3       \* most spin echo sidecars of one direction
MaxOptions == 1     \* most options the user gives in SpecParams
MaxSessions == 2    \* most sessions of the dataset in SpecCheckOnly
MaxRuns == 3        \* largest run counter in SpecStatus

----------------------------------------------------------------------------
(* Status: pipelines.py class Status *)

states == [unchecked |-> 999, not_started |-> 4, failed |-> 3,
           incomplete |-> 2, succeeded |-> 1]

\* A result of Stage.call is an int; a result of pool.starmap is a list of ints.
IntResult(rc) == [isList |-> FALSE, codes |-> <<rc>>]

ListResult(codes) == [isList |-> TRUE, codes |-> codes]

NoResult == [isList |-> FALSE, codes |-> <<>>]

\* A comment is the text with the value substituted for its %s, if any.
NoComment == [text |-> "", arg |-> NoResult]

ExitCodeComment(res) == [text |-> "stage terminated with exit code %s", arg |-> res]

MissingFilesComment ==
    [text |-> "stage terminated, some required files were not created.",
     arg |-> NoResult]

UncheckedComment ==
    [text |-> "no expected_outputs list for completed node", arg |-> NoResult]

defaults == [num_runs |-> 0, node_status |-> states.not_started,
             comment |-> NoComment]

\* variant of increment_run: the count starts over with every run
increment_run_restart(rec) == [rec EXCEPT !.num_runs = 1]

increment_run(rec) == [rec EXCEPT !.num_runs = @ + 1]

\* variant of update_start_run: the run counter is not incremented
update_start_run_no_increment(rec) ==
    [rec EXCEPT !.node_status = states.incomplete]

update_start_run(rec) ==
    [increment_run(rec) EXCEPT !.node_status = states.incomplete]

update_success(rec) ==
    [rec EXCEPT !.node_status = states.succeeded, !.comment = NoComment]

update_failure(rec, comment) ==
    [rec EXCEPT !.node_status = states.failed, !.comment = comment]

update_unchecked(rec, comment) ==
    [rec EXCEPT !.node_status = states.unchecked, !.comment = comment]

succeeded_strict(rec) ==
    rec.node_status = states.succeeded

succeeded(rec) ==
    rec.node_status \in {states.succeeded, states.unchecked}

----------------------------------------------------------------------------
(* The stage list: run.py interface *)

Kinds == {"PreFreeSurfer", "FreeSurfer", "PostFreeSurfer", "FMRIVolume",
          "FMRISurface", "DCANBOLDProcessing", "ExecutiveSummary",
          "CustomClean", "FileMapper"}

\* inspect.isgeneratorfunction(self.cmdline): the classes whose cmdline yields
IsGenerator(k) == k \in {"FMRIVolume", "FMRISurface", "DCANBOLDProcessing"}

\* the classes that override setup and teardown with an extra call
HasExtraCalls(k) == k = "DCANBOLDProcessing"

\* variant of the list build: the summary stage needs functional data
BuildOrder_no_summary(run_anat, run_func, cleaning_json, file_mapper_json) ==
    (IF run_anat THEN <<"PreFreeSurfer", "FreeSurfer", "PostFreeSurfer">>
                 ELSE <<>>)
    \o (IF run_func THEN <<"FMRIVolume", "FMRISurface", "DCANBOLDProcessing",
                           "ExecutiveSummary">>
                    ELSE <<>>)
    \o (IF cleaning_json THEN <<"CustomClean">> ELSE <<>>)
    \o (IF file_mapper_json THEN <<"FileMapper">> ELSE <<>>)

\* variant of the list build: the summary stage is appended last of all
BuildOrder_summary_last(run_anat, run_func, cleaning_json, file_mapper_json) ==
    (IF run_anat THEN <<"PreFreeSurfer", "FreeSurfer", "PostFreeSurfer">>
                 ELSE <<>>)
    \o (IF run_func THEN <<"FMRIVolume", "FMRISurface", "DCANBOLDProcessing">>
                    ELSE <<>>)
    \o (IF cleaning_json THEN <<"CustomClean">> ELSE <<>>)
    \o (IF file_mapper_json THEN <<"FileMapper">> ELSE <<>>)
    \o <<"ExecutiveSummary">>

BuildOrder(run_anat, run_func, cleaning_json, file_mapper_json) ==
    (IF run_anat THEN <<"PreFreeSurfer", "FreeSurfer", "PostFreeSurfer">>
                 ELSE <<>>)
    \o (IF run_func THEN <<"FMRIVolume", "FMRISurface", "DCANBOLDProcessing">>
                    ELSE <<>>)
    \o <<"ExecutiveSummary">>
    \o (IF cleaning_json THEN <<"CustomClean">> ELSE <<>>)
    \o (IF file_mapper_json THEN <<"FileMapper">> ELSE <<>>)

BuiltOrders ==
    {BuildOrder(a, f, c, m) : a \in BOOLEAN, f \in BOOLEAN,
                               c \in BOOLEAN, m \in BOOLEAN}

Range(s) == {s[i] : i \in 1..Len(s)}

\* A --stage selector is a string; it is modelled as its sequence of tokens,
\* a token being ":" or a maximal colon-free piece (a stage name or not).
Tokens == Kinds \cup {":", "Unknown"}

Selectors == UNION {[1..n -> Tokens] : n \in 0..MaxSelector}

\* str.find(":"): 1-based position of the first colon, 0 when there is none
FindColon(sel) ==
    IF \E i \in 1..Len(sel) : sel[i] = ":"
    THEN CHOOSE i \in 1..Len(sel) :
            sel[i] = ":" /\ \A j \in 1..(i - 1) : sel[j] # ":"
    ELSE 0

\* list.index(x): 0-based position of the first occurrence
Index(names, x) ==
    (CHOOSE i \in 1..Len(names) :
        names[i] = x /\ \A j \in 1..(i - 1) : names[j] # x) - 1

\* "start_stage in names": a piece of the string equals a stage name
InNames(piece, names) == Len(piece) = 1 /\ piece[1] \in Range(names)

\* variant of the slicing: the stop stage itself is left out
Slice_exclusive(built, stages) ==
    IF stages = <<>> THEN [ok |-> TRUE, order |-> built]
    ELSE
    LET idx_colon == FindColon(stages)
        has_end == idx_colon > 0
        start_stage == IF has_end THEN SubSeq(stages, 1, idx_colon - 1)
                                  ELSE stages
        end_stage == IF has_end
                     THEN SubSeq(stages, idx_colon + 1, Len(stages))
                     ELSE <<>>
        start_bad == start_stage # <<>> /\ ~InNames(start_stage, built)
        end_bad == has_end /\ ~InNames(end_stage, built)
        start_idx == IF start_stage # <<>> THEN Index(built, start_stage[1])
                                           ELSE 0
        end_idx == IF has_end THEN Index(built, end_stage[1])
                              ELSE Len(built)
    IN  IF start_bad \/ end_bad THEN [ok |-> FALSE, order |-> <<>>]
        ELSE [ok |-> TRUE, order |-> SubSeq(built, start_idx + 1, end_idx)]

\* variant of the slicing: a range given backwards is read forwards
Slice_swapped(built, stages) ==
    IF stages = <<>> THEN [ok |-> TRUE, order |-> built]
    ELSE
    LET idx_colon == FindColon(stages)
        has_end == idx_colon > 0
        start_stage == IF has_end THEN SubSeq(stages, 1, idx_colon - 1)
                                  ELSE stages
        end_stage == IF has_end
                     THEN SubSeq(stages, idx_colon + 1, Len(stages))
                     ELSE <<>>
        start_bad == start_stage # <<>> /\ ~InNames(start_stage, built)
        end_bad == has_end /\ ~InNames(end_stage, built)
        start_idx == IF start_stage # <<>> THEN Index(built, start_stage[1])
                                           ELSE 0
        end_idx == IF has_end THEN Index(built, end_stage[1]) + 1
                              ELSE Len(built)
    IN  IF start_bad \/ end_bad THEN [ok |-> FALSE, order |-> <<>>]
        ELSE IF start_idx + 1 > end_idx
        THEN [ok |-> TRUE, order |-> SubSeq(built, end_idx, start_idx + 1)]
        ELSE [ok |-> TRUE, order |-> SubSeq(built, start_idx + 1, end_idx)]

\* run.py:524-557.  The result is [ok, order]; ok = FALSE is the AssertionError.
Slice(built, stages) ==
    IF stages = <<>> THEN [ok |-> TRUE, order |-> built]
    ELSE
    LET idx_colon == FindColon(stages)
        has_end == idx_colon > 0
        start_stage == IF has_end THEN SubSeq(stages, 1, idx_colon - 1)
                                  ELSE stages
        end_stage == IF has_end
                     THEN SubSeq(stages, idx_colon + 1, Len(stages))
                     ELSE <<>>
        start_bad == start_stage # <<>> /\ ~InNames(start_stage, built)
        end_bad == has_end /\ ~InNames(end_stage, built)
        start_idx == IF start_stage # <<>> THEN Index(built, start_stage[1])
                                           ELSE 0
        end_idx == IF has_end THEN Index(built, end_stage[1]) + 1
                              ELSE Len(built)
    IN  IF start_bad \/ end_bad THEN [ok |-> FALSE, order |-> <<>>]
        ELSE [ok |-> TRUE, order |-> SubSeq(built, start_idx + 1, end_idx)]

\* the stage lists interface can hand to its run loop
SlicedOrders ==
    UNION {{Slice(b, t).order : t \in {t \in Selectors : Slice(b, t).ok}} :
           b \in BuiltOrders}

----------------------------------------------------------------------------
(* Stage: pipelines.py class Stage *)

\* get_expected_outputs: the formatted paths of stage k, <<k, i>> the i-th
get_expected_outputs(k) == {<<k, i>> : i \in 1..expected_outputs_spec[k]}

\* variant of check_expected_outputs: missing outputs are always ignored
check_expected_outputs_lenient(k) == TRUE

\* check_expected_outputs, pipelines.py:540-559
check_expected_outputs(k) ==
    IF ~check_expected_outputs_active[k] THEN TRUE
    ELSE IF ~(get_expected_outputs(k) \subseteq files)
            /\ ~ignore_expected_outputs[k]
         THEN FALSE
         ELSE TRUE

\* variant of the listing: every expected output is listed as not found
dne_all(k) == get_expected_outputs(k)

\* pipelines.py:553: dne_list, the expected outputs that do not exist
dne(k) == get_expected_outputs(k) \ files

\* the last 'file not found' listing after check_expected_outputs of stage k:
\* with checking off the method returns before it lists anything
Listing(k) == IF check_expected_outputs_active[k] THEN dne(k) ELSE dne_list

\* bool(self.remove_expected_outputs) at pipelines.py:587: the attribute read
\* is the bound method itself, which is truthy
RemoveGuard(k) == TRUE

\* mp.Pool(processes=ncpus) after the cap of pipelines.py:697-698
PoolCap == 6

\* variant of PoolSize: the cap is not applied
PoolSize_uncapped(n) == n

PoolSize(n) == IF n > PoolCap THEN PoolCap ELSE n

ExitCodes == 0..MaxExit

Stage == order[idx]

Running == {u \in DOMAIN ustate : ustate[u] = "running"}

\* variant of Normalize: one zero element is enough
Normalize_any(res) ==
    IF res.isList /\ \E i \in 1..Len(res.codes) : res.codes[i] = 0
    THEN IntResult(0) ELSE res

\* variant of Normalize: an empty list is not a list of zeros
Normalize_nonempty(res) ==
    IF res.isList /\ res.codes # <<>>
                  /\ \A i \in 1..Len(res.codes) : res.codes[i] = 0
    THEN IntResult(0) ELSE res

\* teardown's normalisation of result, pipelines.py:631-632
Normalize(res) ==
    IF res.isList /\ \A i \in 1..Len(res.codes) : res.codes[i] = 0
    THEN IntResult(0) ELSE res

\* "result == 0", pipelines.py:633
IsZero(res) == ~res.isList /\ res.codes = <<0>>

----------------------------------------------------------------------------
(* ParameterSettings: pipelines.py class ParameterSettings *)

\* the suffixes interface looks for, run.py:441-443, pipelines.py:134
Modalities == {"T1w", "T2w", "bold"}

\* the suffixes that make __init__ take the FIELDMAP branch, pipelines.py:152
fmap_types == {"magnitude", "magnitude1", "magnitude2", "phasediff",
               "phase1", "phase2", "fieldmap"}

\* bids_data['types']: the suffixes of the files of a session
Suffixes == Modalities \cup {"epi"} \cup fmap_types

\* bids_data['fmap'].keys() when there is no spin-echo pair: the field map
\* files of the session by suffix
FmapKeys(types) == types \cap fmap_types

\* A Python value held by an attribute or passed as an option.  A string
\* written with a placeholder "{var}" has var set and val empty; once
\* formatted, val is what the environment held for var and the placeholder is
\* gone.  None, numbers and booleans have str FALSE, their text is their repr.
Str(x) == [text |-> x, var |-> "", val |-> "", str |-> TRUE]

Tmpl(v, x) == [text |-> x, var |-> v, val |-> "", str |-> TRUE]

Obj(x) == [text |-> x, var |-> "", val |-> "", str |-> FALSE]

None == Obj("None")

\* bool(value)
Truthy(v) == ~(v \in {None, Obj("0"), Obj("False"), Str("")})

\* variant of the formatting: the placeholder stays with the string, and a
\* formatted string is formatted again
FormatValue_again(v, env) ==
    IF v.var # "" THEN [v EXCEPT !.val = env[v.var]] ELSE v

\* value.format(**os.environ): the result has no placeholder left, so that
\* formatting it again gives the same string
FormatValue(v, env) ==
    IF v.var # "" /\ v.val = "" THEN [v EXCEPT !.val = env[v.var]] ELSE v

NoError == "none"

T2wError == "Exception: The infant pipeline is not able to run without T2w data"

MagnitudeError == "Exception: No FM magnitude image identified"

PhaseError == "Exception: No FM phase image identified"

Unsupported == "NotImplementedError"

\* the fields of the distortion correction, all None (pipelines.py:197-199)
DcNone == [dcmethod |-> None, echospacing |-> None, seunwarpdir |-> None,
           fmapmag |-> None, fmapphase |-> None, fmapgeneralelectric |-> None,
           echodiff |-> None, gdcoeffs |-> None]

\* variant of the T2w requirement: the session is accepted without T2w
T2wMissing_tolerated(types) == FALSE

\* pipelines.py:134-142
T2wMissing(types) == "T2w" \notin types

\* variant of the FIELDMAP branch: the phase images are looked at first
FieldmapError_phase_first(keys) ==
    IF "phasediff" \notin keys
    THEN IF {"phase1", "phase2"} \subseteq keys THEN Unsupported
         ELSE PhaseError
    ELSE IF {"magnitude1", "magnitude2"} \subseteq keys THEN NoError
    ELSE IF "magnitude" \in keys THEN Unsupported
    ELSE MagnitudeError

\* the FIELDMAP branch, pipelines.py:171-190: what it raises, if anything; the
\* magnitude images are looked at first
FieldmapError(keys) ==
    IF ~({"magnitude1", "magnitude2"} \subseteq keys)
    THEN IF "magnitude" \in keys THEN Unsupported ELSE MagnitudeError
    ELSE IF "phasediff" \in keys THEN NoError
    ELSE IF {"phase1", "phase2"} \subseteq keys THEN Unsupported
    ELSE PhaseError

\* variant of __init__: the gradient field maps are looked for before the
\* spin-echo pair
ParameterSettings_init_fieldmap_first(types) ==
    IF T2wMissing(types)
    THEN [error |-> T2wError, dc |-> DcNone]
    ELSE IF fmap_types \cap types # {}
    THEN IF FieldmapError(FmapKeys(types)) # NoError
         THEN [error |-> FieldmapError(FmapKeys(types)), dc |-> DcNone]
         ELSE [error |-> NoError,
               dc |-> [DcNone EXCEPT !.dcmethod = Str("FIELDMAP"),
                                     !.fmapmag = Str("magnitude1"),
                                     !.echodiff = Str("EchoTime"),
                                     !.fmapphase = Str("phasediff")]]
    ELSE IF "epi" \in types
    THEN [error |-> NoError,
          dc |-> [DcNone EXCEPT !.dcmethod = Str("TOPUP"),
                                !.echospacing = Str("EffectiveEchoSpacing"),
                                !.seunwarpdir = Str("PhaseEncodingDirection")]]
    ELSE [error |-> NoError, dc |-> DcNone]

\* ParameterSettings.__init__, pipelines.py:120-232: the exception raised, or
\* the distortion correction fields of the new object
ParameterSettings_init(types) ==
    IF T2wMissing(types)
    THEN [error |-> T2wError, dc |-> DcNone]
    ELSE IF "epi" \in types
    THEN [error |-> NoError,
          dc |-> [DcNone EXCEPT !.dcmethod = Str("TOPUP"),
                                !.echospacing = Str("EffectiveEchoSpacing"),
                                !.seunwarpdir = Str("PhaseEncodingDirection")]]
    ELSE IF fmap_types \cap types # {}
    THEN IF FieldmapError(FmapKeys(types)) # NoError
         THEN [error |-> FieldmapError(FmapKeys(types)), dc |-> DcNone]
         ELSE [error |-> NoError,
               dc |-> [DcNone EXCEPT !.dcmethod = Str("FIELDMAP"),
                                     !.fmapmag = Str("magnitude1"),
                                     !.echodiff = Str("EchoTime"),
                                     !.fmapphase = Str("phasediff")]]
    ELSE [error |-> NoError, dc |-> DcNone]

\* os.environ: the variables the class attributes refer to, and the values
\* they can have
EnvVars == {"HCPPIPEDIR_Templates", "DCANBOLDPROCVER"}

EnvValues == {"v1", "v2"}

Environ0 == [v \in EnvVars |-> "v1"]

\* The class attributes, pipelines.py:22-118.  The attributes that are not
\* listed are plain strings or strings with one placeholder, like regname and
\* t1template, and no setter assigns them.
ClassAttrs ==
    [summary_dir |-> Tmpl("DCANBOLDPROCVER", "summary_"),
     regname |-> Str("FS"),
     t1template |-> Tmpl("HCPPIPEDIR_Templates", "/INFANT_MNI_T1_1mm.nii.gz"),
     multitemplatedir |-> Tmpl("HCPPIPEDIR_Templates", "/JLF_templates"),
     multimaskingdir |-> Tmpl("HCPPIPEDIR_Templates", "/DCAN_neo_JLF_heads"),
     t2wstudytemplate |->
         Tmpl("HCPPIPEDIR_Templates", "/temp_nih_T2w_atl.nii.gz"),
     t2wstudytemplatebrain |->
         Tmpl("HCPPIPEDIR_Templates", "/temp_nih_T2w_atl_brain.nii.gz"),
     jlf_method |-> Str("T1W"),
     max_cortical_thickness |-> Obj("5"),
     smoothing_iterations |-> Obj("10"),
     aseg |-> Str("DEFAULT"),
     subcortical_map_method |-> Str("ROI_MAP"),
     t1_brain_mask |-> None,
     mc_frame |-> Obj("17"),
     motion_filter_type |-> Str("notch"),
     band_stop_min |-> None,
     band_stop_max |-> None]

\* the instance attributes __init__ assigns after the distortion correction
\* fields, pipelines.py:201-232
InstanceAttrs ==
    [t1wstudytemplate |-> None, t1wstudytemplatebrain |-> None,
     unproc |-> Str("func"), atropos_mask_method |-> Str("REFINE"),
     crop |-> Obj("True")]

\* the object __init__ leaves behind: its instance attributes
NewInstance(types) == ParameterSettings_init(types).dc @@ InstanceAttrs

\* setattr(self, name, value)
SetAttr(inst, name, value) == (name :> value) @@ inst

\* _params, pipelines.py:241-248: an instance attribute hides the class
\* attribute of its name
Params(cls, inst) == inst @@ cls

\* the string parameters of the object, formatted
Formatted(cls, inst, env) ==
    LET p == Params(cls, inst)
    IN  [x \in {y \in DOMAIN p : p[y].str} |-> FormatValue(p[x], env)]

\* variant of _format: the formatted strings are stored on the class
Format_on_class(cls, inst, env) ==
    [cls |-> Formatted(cls, inst, env) @@ cls, inst |-> inst]

\* _format, pipelines.py:250-259: every string parameter is formatted and
\* stored on the instance; the class is not written
Format(cls, inst, env) ==
    [cls |-> cls, inst |-> Formatted(cls, inst, env) @@ inst]

\* Setters, pipelines.py:281-384
set_anat_only(inst, anat_only) ==
    IF anat_only
    THEN SetAttr(SetAttr(inst, "unproc", None), "summary_dir", None)
    ELSE inst

set_atropos_mask_method(inst, value) ==
    SetAttr(inst, "atropos_mask_method", value)

set_bandstop_filter(inst, lower_bound, upper_bound) ==
    SetAttr(SetAttr(SetAttr(inst, "motion_filter_type", Str("notch")),
                    "band_stop_min", lower_bound),
            "band_stop_max", upper_bound)

set_hypernormalization_method(inst, value) ==
    SetAttr(inst, "norm_method", value)

set_mc_frame(inst, value) == SetAttr(inst, "mc_frame", value)

set_templates(inst, t1_head, t1_brain, t2_head, t2_brain, multi_template_dir, multi_masking_dir) ==
    LET a == IF Truthy(t1_head)
             THEN SetAttr(SetAttr(inst, "t1wstudytemplate", t1_head),
                          "t1wstudytemplatebrain", t1_brain)
             ELSE inst
        b == IF Truthy(t2_head)
             THEN SetAttr(SetAttr(a, "t2wstudytemplate", t2_head),
                          "t2wstudytemplatebrain", t2_brain)
             ELSE a
        c == IF Truthy(multi_template_dir)
             THEN SetAttr(b, "multitemplatedir", multi_template_dir)
             ELSE b
    IN  IF Truthy(multi_masking_dir)
        THEN SetAttr(c, "multimaskingdir", multi_masking_dir)
        ELSE c

turn_off_cropping(inst) == SetAttr(inst, "crop", Obj("False"))

set_dcmethod(inst, value) ==
    IF Truthy(value) THEN SetAttr(inst, "dcmethod", value) ELSE inst

set_atropos_range(inst, lower, upper) ==
    SetAttr(SetAttr(inst, "atropos_label_min", lower),
            "atropos_label_max", upper)

set_max_cortical_thickness(inst, value) ==
    SetAttr(inst, "max_cortical_thickness",
            IF Truthy(value) THEN value ELSE Obj("5"))

set_jlf_method(inst, value) ==
    SetAttr(inst, "jlf_method", IF Truthy(value) THEN value ELSE Str("T1W"))

set_smoothing_iterations(inst, value) ==
    SetAttr(inst, "smoothing_iterations",
            IF Truthy(value) THEN value ELSE Obj("10"))

set_subcortical_map_method(inst, value) ==
    SetAttr(inst, "subcortical_map_method",
            IF Truthy(value) THEN value ELSE Str("ROI_MAP"))

\* variant of set_t1_brain_mask: the value is stored even when it is empty
set_t1_brain_mask_always(inst, value) == SetAttr(inst, "t1_brain_mask", value)

set_t1_brain_mask(inst, value) ==
    IF Truthy(value) THEN SetAttr(inst, "t1_brain_mask", value) ELSE inst

set_aseg(inst, value) ==
    SetAttr(inst, "aseg", IF Truthy(value) THEN value ELSE Str("DEFAULT"))

\* generate_parser, run.py:110-280: the options handed to the setters, at
\* their defaults.  An option that takes a pair (atropos_range, bandstop, the
\* study templates) is held by its first element; the code tests the pair or
\* its first element and passes the second along.
KwDefault ==
    [aseg |-> Str("DEFAULT"),
     atropos_mask_method |-> Str("REFINE"),
     atropos_range |-> Obj("4"),
     bandstop |-> None,
     dcmethod |-> None,
     hyper_norm_method |-> Str("ADULT_GM_IP"),
     jlf_method |-> Str("T1W"),
     max_cortical_thickness |-> Obj("5"),
     mc_frame |-> Obj("17"),
     multi_template_dir |-> None,
     multi_masking_dir |-> None,
     no_crop |-> Obj("False"),
     smoothing_iterations |-> Obj("10"),
     subcortical_map_method |-> Str("ROI_MAP"),
     t1_brain_mask |-> None,
     t1_study_template |-> None,
     t2_study_template |-> None]

OptionNames == DOMAIN KwDefault

\* what the command line lets the user give for an option: the choices of the
\* parser where it has some, else an empty and a non-empty string, or zero and
\* a non-zero number where the parser converts to a number
OptionValues(name) ==
    CASE name = "atropos_mask_method" -> {Str("CREATE"), Str("NONE")}
      [] name = "dcmethod" ->
            {Str("TOPUP"), Str("FIELDMAP"), Str("T2_DC"), Str("NONE")}
      [] name = "hyper_norm_method" -> {Str("ROI_IPS"), Str("NONE")}
      [] name = "jlf_method" -> {Str("T2W"), Str("T1W_ORIG")}
      [] name = "subcortical_map_method" -> {Str("MNI_AFFINE")}
      [] name = "no_crop" -> {Obj("True")}
      [] name \in {"atropos_range", "bandstop", "max_cortical_thickness",
                   "smoothing_iterations"} -> {Obj("0"), Obj("7")}
      [] OTHER -> {Str(""), Str("user")}

\* the option sets in which at most n options were given by the user
RECURSIVE KwWith(_)
KwWith(n) ==
    IF n = 0 THEN {KwDefault}
    ELSE KwWith(n - 1) \cup
         UNION {UNION {{[k EXCEPT ![o] = v] : v \in OptionValues(o)} :
                          o \in OptionNames} : k \in KwWith(n - 1)}

\* variant of the driver: set_dcmethod is handed the option of the setter
\* that follows it
dcmethod_option_next(kw) == kw.hyper_norm_method

\* run.py:464-465: the value interface hands to set_dcmethod
dcmethod_option(kw) == kw.dcmethod

\* interface, run.py:450-494: the setter calls on the new object, in order
Configure(inst0, anat_only, kw) ==
    LET s1 == set_anat_only(inst0, anat_only)
        s2 == IF kw.aseg # None THEN set_aseg(s1, kw.aseg) ELSE s1
        s3 == IF kw.atropos_mask_method # None
              THEN set_atropos_mask_method(s2, kw.atropos_mask_method)
              ELSE s2
        s4 == IF kw.atropos_range # None
              THEN set_atropos_range(s3, kw.atropos_range, kw.atropos_range)
              ELSE s3
        s5 == IF kw.bandstop # None
              THEN set_bandstop_filter(s4, kw.bandstop, kw.bandstop)
              ELSE s4
        s6 == IF kw.dcmethod # None
              THEN set_dcmethod(s5, dcmethod_option(kw)) ELSE s5
        s7 == IF kw.hyper_norm_method = None
              THEN set_hypernormalization_method(s6, Str("ADULT_GM_IP"))
              ELSE set_hypernormalization_method(s6, kw.hyper_norm_method)
        s8 == IF kw.jlf_method # None
              THEN set_jlf_method(s7, kw.jlf_method) ELSE s7
        s9 == IF kw.max_cortical_thickness # Obj("5")
              THEN set_max_cortical_thickness(s8, kw.max_cortical_thickness)
              ELSE s8
        s10 == set_smoothing_iterations(s9, kw.smoothing_iterations)
        s11 == IF kw.subcortical_map_method # None
               THEN set_subcortical_map_method(s10, kw.subcortical_map_method)
               ELSE s10
        s12 == IF kw.t1_brain_mask # None
               THEN set_t1_brain_mask(s11, kw.t1_brain_mask) ELSE s11
        s13 == set_templates(s12, kw.t1_study_template, kw.t1_study_template,
                             kw.t2_study_template, kw.t2_study_template,
                             kw.multi_template_dir, kw.multi_masking_dir)
        s14 == IF Truthy(kw.no_crop) THEN turn_off_cropping(s13) ELSE s13
    IN  IF kw.mc_frame # None THEN set_mc_frame(s14, kw.mc_frame) ELSE s14

----------------------------------------------------------------------------
(* The state when interface has built and sliced the stage list, run.py:558 *)

\* Every stage class has a status record with the defaults of Status.__init__
\* (a fresh output directory); the records of classes that are not in the
\* list are never read.  pipeline_expected_outputs.json is data: the stages
\* of the list get expected-output lists of one length, 0..MaxOutputs, and
\* the output directory holds none or all of these paths beforehand.

(* generate_parser, run.py:196-372: the arguments that shape the stage list,
   at their defaults, for a session holding every modality.  The loop does
   not read them once the list is sliced. *)
NoSelector == <<>>

ArgsDefault == [types |-> Modalities, anat_only |-> FALSE,
                cleaning_json |-> FALSE, file_mapper_json |-> FALSE,
                stages |-> NoSelector, kw |-> KwDefault,
                check_only |-> FALSE]

\* no session specification was made: the class as it was imported
NoSpec == [made |-> FALSE, error |-> NoError, inst |-> [x \in {} |-> None]]

\* get_params was not called; env is the environment the call saw
NoParams == [read |-> FALSE, values |-> [x \in {} |-> None],
             env |-> Environ0]

ConfigIdle ==
    /\ session_spec = NoSpec
    /\ class_attrs = ClassAttrs
    /\ environ = Environ0
    /\ params = NoParams

\* one session, nothing checked or listed yet
ReportIdle ==
    /\ dne_list = {}
    /\ checked = <<>>
    /\ session = 1
    /\ nsessions = 1

Directions == {"positive", "negative"}

Unbound == -1

\* _get_intended_sefmaps was not called
SefmapsIdle ==
    /\ fmap_metadata = [d \in Directions |-> <<>>]
    /\ loop_idx = Unbound
    /\ intended_idx = [d \in Directions |-> Unbound]
    /\ warned = {}

InitCommon ==
    /\ idx = 1
    /\ pc = "options"
    /\ status = [k \in Kinds |-> defaults]
    /\ status0 = status
    /\ expected_outputs_spec \in
          {[k \in Kinds |-> IF k \in Range(order) THEN n ELSE 0] :
              n \in 0..MaxOutputs}
    /\ files \in {{}, {<<k, i>> \in Kinds \X (1..MaxOutputs) :
                            i <= expected_outputs_spec[k]}}
    /\ call_active = [k \in Kinds |-> TRUE]
    /\ check_expected_outputs_active = [k \in Kinds |-> TRUE]
    /\ remove_expected_outputs_active = [k \in Kinds |-> TRUE]
    /\ ignore_expected_outputs = [k \in Kinds |-> FALSE]
    /\ print_commands \in BOOLEAN
    /\ ignore_flag \in BOOLEAN
    /\ ustate = <<>>
    /\ ucode = <<>>
    /\ result = NoResult
    /\ raised = FALSE
    /\ args = ArgsDefault
    /\ exists = Kinds
    /\ invocation = 1
    /\ starts = [k \in Kinds |-> status[k].num_runs]
    /\ comment_arg = NoComment
    /\ ConfigIdle
    /\ ReportIdle
    /\ SefmapsIdle

Init ==
    /\ order \in {o \in SlicedOrders : Len(o) <= MaxStages}
    /\ ncpus \in 1..MaxNcpus
    /\ nfunc \in IF \E k \in Range(order) : IsGenerator(k)
                 THEN 1..MaxFunc ELSE {0}
    /\ InitCommon

----------------------------------------------------------------------------
(* interface: special runtime options, run.py:567-575 *)

\* variant of the dry run: only the calls are switched off
SpecialRuntimeOptions_calls_only ==
    /\ pc = "options"
    /\ ~args.check_only
    /\ call_active' =
          [k \in Kinds |-> IF print_commands /\ k \in Range(order)
                           THEN FALSE ELSE call_active[k]]
    /\ ignore_expected_outputs' =
          [k \in Kinds |-> IF ignore_flag /\ k \in Range(order)
                           THEN TRUE ELSE ignore_expected_outputs[k]]
    /\ pc' = "loop"
    /\ UNCHANGED <<order, idx, status, status0, files, expected_outputs_spec,
                   check_expected_outputs_active,
                   remove_expected_outputs_active,
                   print_commands, ignore_flag, ncpus, nfunc, ustate, ucode,
                   result, raised, args, exists, invocation, starts,
                   comment_arg, config, report>>

SpecialRuntimeOptions ==
    /\ pc = "options"
    /\ ~args.check_only
    /\ call_active' =
          [k \in Kinds |-> IF print_commands /\ k \in Range(order)
                           THEN FALSE ELSE call_active[k]]
    /\ check_expected_outputs_active' =
          [k \in Kinds |-> IF print_commands /\ k \in Range(order)
                           THEN FALSE ELSE check_expected_outputs_active[k]]
    /\ remove_expected_outputs_active' =
          [k \in Kinds |-> IF print_commands /\ k \in Range(order)
                           THEN FALSE ELSE remove_expected_outputs_active[k]]
    /\ ignore_expected_outputs' =
          [k \in Kinds |-> IF ignore_flag /\ k \in Range(order)
                           THEN TRUE ELSE ignore_expected_outputs[k]]
    /\ pc' = "loop"
    /\ UNCHANGED <<order, idx, status, status0, files, expected_outputs_spec,
                   print_commands, ignore_flag, ncpus, nfunc, ustate, ucode,
                   result, raised, args, exists, invocation, starts,
                   comment_arg, config,
                   report>>

flags == <<call_active, check_expected_outputs_active,
           remove_expected_outputs_active, ignore_expected_outputs,
           print_commands, ignore_flag>>

inputs == <<order, status0, expected_outputs_spec, ncpus, nfunc, args, exists,
            invocation, comment_arg, config>>

----------------------------------------------------------------------------
(* Stage.run, pipelines.py:675-707 *)

\* Stage.setup, first statement: self.status.update_start_run()
setup ==
    /\ pc = "loop"
    /\ idx <= Len(order)
    /\ status' = [status EXCEPT ![Stage] = update_start_run(@)]
    /\ starts' = [starts EXCEPT ![Stage] = @ + 1]
    /\ pc' = "remove"
    /\ UNCHANGED <<idx, files, ustate, ucode, result, raised, flags, inputs,
                   report>>

\* where run goes after setup: the batch of a generator cmdline, or one call
Dispatch(k) ==
    IF IsGenerator(k)
    THEN /\ pc' = "pool"
         /\ ustate' = [u \in 1..nfunc |-> "pending"]
         /\ ucode' = [u \in 1..nfunc |-> 0]
    ELSE /\ pc' = "call"
         /\ UNCHANGED <<ustate, ucode>>

\* Stage.setup, second statement: self.remove_expected_outputs()
remove_expected_outputs ==
    /\ pc = "remove"
    /\ files' = IF ~RemoveGuard(Stage) THEN files
                ELSE files \ get_expected_outputs(Stage)
    /\ IF HasExtraCalls(Stage)
       THEN pc' = "setup_call" /\ UNCHANGED <<ustate, ucode>>
       ELSE Dispatch(Stage)
    /\ UNCHANGED <<idx, status, result, raised, flags, inputs, starts,
                   report>>

\* variant of Stage.call: the process is started whatever call_active says
Call_always(k, rc, made) ==
    /\ rc \in ExitCodes
    /\ made \in SUBSET get_expected_outputs(k)

\* Stage.call / _call: what one external process may do.  It returns an exit
\* code and may have created any of the stage's expected outputs; with
\* call_active off nothing is executed and 0 is returned.
Call(k, rc, made) ==
    IF call_active[k]
    THEN /\ rc \in ExitCodes
         /\ made \in SUBSET get_expected_outputs(k)
    ELSE /\ rc = 0
         /\ made = {}

\* DCANBOLDProcessing.setup: the --setup call, its result is dropped
setup_call ==
    /\ pc = "setup_call"
    /\ \E rc \in ExitCodes, made \in SUBSET get_expected_outputs(Stage) :
          /\ Call(Stage, rc, made)
          /\ files' = files \cup made
    /\ Dispatch(Stage)
    /\ UNCHANGED <<idx, status, result, raised, flags, inputs, starts,
                   report>>

\* the single call of a stage whose cmdline is not a generator
call ==
    /\ pc = "call"
    /\ \E rc \in ExitCodes, made \in SUBSET get_expected_outputs(Stage) :
          /\ Call(Stage, rc, made)
          /\ files' = files \cup made
          /\ result' = IntResult(rc)
    /\ pc' = "teardown"
    /\ UNCHANGED <<idx, status, ustate, ucode, raised, flags, inputs, starts,
                   report>>

\* a free pool worker takes the next task of the queue: the units are taken
\* in the order of cmdlist
pool_start ==
    /\ pc = "pool"
    /\ Cardinality(Running) < PoolSize(ncpus)
    /\ \E u \in DOMAIN ustate :
          /\ ustate[u] = "pending"
          /\ \A v \in 1..(u - 1) : ustate[v] # "pending"
          /\ ustate' = [ustate EXCEPT ![u] = "running"]
    /\ UNCHANGED <<idx, pc, status, files, ucode, result, raised, flags,
                   inputs, starts,
                   report>>

\* variant of pool_finish: the worker records the failure of its unit itself
pool_finish_reporting ==
    /\ pc = "pool"
    /\ \E u \in Running :
       \E rc \in ExitCodes, made \in SUBSET get_expected_outputs(Stage) :
          /\ Call(Stage, rc, made)
          /\ files' = files \cup made
          /\ ustate' = [ustate EXCEPT ![u] = "done"]
          /\ ucode' = [ucode EXCEPT ![u] = rc]
          /\ status' = IF rc = 0 THEN status
                        ELSE [status EXCEPT ![Stage] =
                                update_failure(@, ExitCodeComment(IntResult(rc)))]
    /\ UNCHANGED <<idx, pc, result, raised, flags, inputs, starts, report>>

\* a unit returns from self.call
pool_finish ==
    /\ pc = "pool"
    /\ \E u \in Running :
       \E rc \in ExitCodes, made \in SUBSET get_expected_outputs(Stage) :
          /\ Call(Stage, rc, made)
          /\ files' = files \cup made
          /\ ustate' = [ustate EXCEPT ![u] = "done"]
          /\ ucode' = [ucode EXCEPT ![u] = rc]
    /\ UNCHANGED <<idx, pc, status, result, raised, flags, inputs, starts,
                   report>>

\* variant of pool_join: run goes on as soon as one unit has returned
pool_join_partial ==
    /\ pc = "pool"
    /\ \E u \in DOMAIN ustate : ustate[u] = "done"
    /\ result' = ListResult(ucode)
    /\ pc' = IF HasExtraCalls(Stage) THEN "teardown_call" ELSE "teardown"
    /\ UNCHANGED <<idx, status, files, ustate, ucode, raised, flags, inputs, starts,
                   report>>

\* pool.starmap returns the list of results, in the order of cmdlist
pool_join ==
    /\ pc = "pool"
    /\ \A u \in DOMAIN ustate : ustate[u] = "done"
    /\ result' = ListResult(ucode)
    /\ pc' = IF HasExtraCalls(Stage) THEN "teardown_call" ELSE "teardown"
    /\ UNCHANGED <<idx, status, files, ustate, ucode, raised, flags, inputs, starts,
                   report>>

\* DCANBOLDProcessing.teardown: the --teardown call, assigned to result
teardown_call ==
    /\ pc = "teardown_call"
    /\ \E rc \in ExitCodes, made \in SUBSET get_expected_outputs(Stage) :
          /\ Call(Stage, rc, made)
          /\ files' = files \cup made
          /\ result' = IntResult(rc)
    /\ pc' = "teardown"
    /\ UNCHANGED <<idx, status, ustate, ucode, raised, flags, inputs, starts,
                   report>>

\* variant of teardown_result: with missing outputs ignored the exit code is
\* ignored as well
teardown_result_masked ==
    /\ pc = "teardown"
    /\ result' = Normalize(result)
    /\ status' = [status EXCEPT ![Stage] =
                     IF IsZero(Normalize(result)) \/ ignore_expected_outputs[Stage]
                     THEN update_success(@)
                     ELSE update_failure(@, ExitCodeComment(Normalize(result)))]
    /\ pc' = "check"
    /\ UNCHANGED <<idx, files, ustate, ucode, raised, flags, inputs, starts,
                   report>>

\* Stage.teardown, pipelines.py:631-638
teardown_result ==
    /\ pc = "teardown"
    /\ result' = Normalize(result)
    /\ status' = [status EXCEPT ![Stage] =
                     IF IsZero(Normalize(result))
                     THEN update_success(@)
                     ELSE update_failure(@, ExitCodeComment(Normalize(result)))]
    /\ pc' = "check"
    /\ UNCHANGED <<idx, files, ustate, ucode, raised, flags, inputs, starts,
                   report>>

\* variant of the verification step: outputs found in place restore success
teardown_check_forgiving ==
    /\ pc = "check"
    /\ status' = [status EXCEPT ![Stage] =
                     IF ~check_expected_outputs(Stage)
                     THEN update_failure(@, MissingFilesComment)
                     ELSE update_success(@)]
    /\ dne_list' = Listing(Stage)
    /\ pc' = "exit"
    /\ UNCHANGED <<idx, files, ustate, ucode, result, raised, flags, inputs, starts,
                   checked, session, nsessions>>

\* variant of the verification step: a record that already failed keeps its
\* comment
teardown_check_first_comment ==
    /\ pc = "check"
    /\ status' = [status EXCEPT ![Stage] =
                     IF ~check_expected_outputs(Stage)
                        /\ @.node_status # states.failed
                     THEN update_failure(@, MissingFilesComment)
                     ELSE @]
    /\ dne_list' = Listing(Stage)
    /\ pc' = "exit"
    /\ UNCHANGED <<idx, files, ustate, ucode, result, raised, flags, inputs, starts,
                   checked, session, nsessions>>

\* Stage.teardown, pipelines.py:639-642
teardown_check ==
    /\ pc = "check"
    /\ status' = [status EXCEPT ![Stage] =
                     IF ~check_expected_outputs(Stage)
                     THEN update_failure(@, MissingFilesComment)
                     ELSE @]
    /\ dne_list' = Listing(Stage)
    /\ pc' = "exit"
    /\ UNCHANGED <<idx, files, ustate, ucode, result, raised, flags, inputs, starts,
                   checked, session, nsessions>>

\* variant of MustRaise: only a run left incomplete raises
MustRaise_incomplete(rec) == rec.node_status = states.incomplete

\* the condition of the raise at pipelines.py:645
MustRaise(rec) == rec.node_status # states.succeeded

\* variant of teardown_exit: the loop catches the Exception and goes on
teardown_exit_caught ==
    /\ pc = "exit"
    /\ raised' = (raised \/ MustRaise(status[Stage]))
    /\ pc' = "loop"
    /\ idx' = idx + 1
    /\ UNCHANGED <<status, files, ustate, ucode, result, flags, inputs, starts,
                   report>>

\* variant of teardown_exit: a failed stage is run again
teardown_exit_retry ==
    /\ pc = "exit"
    /\ raised' = raised
    /\ pc' = "loop"
    /\ idx' = IF MustRaise(status[Stage]) /\ status[Stage].num_runs < 2
              THEN idx ELSE idx + 1
    /\ UNCHANGED <<status, files, ustate, ucode, result, flags, inputs, starts,
                   report>>

\* Stage.teardown, pipelines.py:645-647, and the loop of run.py:578-581:
\* the Exception leaves interface, otherwise the loop goes to the next stage
teardown_exit ==
    /\ pc = "exit"
    /\ IF MustRaise(status[Stage])
       THEN /\ raised' = TRUE
            /\ pc' = "raised"
            /\ idx' = idx
       ELSE /\ raised' = raised
            /\ pc' = "loop"
            /\ idx' = idx + 1
    /\ UNCHANGED <<status, files, ustate, ucode, result, flags, inputs, starts,
                   report>>

\* run.py:578: the loop is over
loop_end ==
    /\ pc = "loop"
    /\ idx > Len(order)
    /\ pc' = "done"
    /\ UNCHANGED <<idx, status, files, ustate, ucode, result, raised, flags,
                   inputs, starts,
                   report>>

Next ==
    \/ SpecialRuntimeOptions
    \/ setup
    \/ remove_expected_outputs
    \/ setup_call
    \/ call
    \/ pool_start
    \/ pool_finish
    \/ pool_join
    \/ teardown_call
    \/ teardown_result
    \/ teardown_check
    \/ teardown_exit
    \/ loop_end

Spec == Init /\ [][Next]_vars

----------------------------------------------------------------------------
(* One fan-out stage with a large batch: the worker pool of Stage.run *)

\* FMRISurface runs as FMRIVolume does; the two kinds of fan-out stage are
\* the one with only the batch and the one with the extra calls
InitPool ==
    /\ order \in {<<"FMRIVolume">>, <<"DCANBOLDProcessing">>}
    /\ ncpus \in 1..MaxPoolNcpus
    /\ nfunc \in 0..MaxPoolFunc
    /\ idx = 1
    /\ pc = "loop"
    /\ status = [k \in Kinds |-> defaults]
    /\ status0 = status
    /\ expected_outputs_spec = [k \in Kinds |-> 0]
    /\ files = {}
    /\ call_active = [k \in Kinds |-> TRUE]
    /\ check_expected_outputs_active = [k \in Kinds |-> TRUE]
    /\ remove_expected_outputs_active = [k \in Kinds |-> TRUE]
    /\ ignore_expected_outputs = [k \in Kinds |-> FALSE]
    /\ print_commands = FALSE
    /\ ignore_flag = FALSE
    /\ ustate = <<>>
    /\ ucode = <<>>
    /\ result = NoResult
    /\ raised = FALSE
    /\ args = ArgsDefault
    /\ exists = Kinds
    /\ invocation = 1
    /\ starts = [k \in Kinds |-> status[k].num_runs]
    /\ comment_arg = NoComment
    /\ ConfigIdle
    /\ ReportIdle
    /\ SefmapsIdle

NextPool ==
    \/ setup
    \/ remove_expected_outputs
    \/ setup_call
    \/ pool_start
    \/ pool_finish
    \/ pool_join
    \/ teardown_call
    \/ teardown_result
    \/ teardown_check
    \/ teardown_exit
    \/ loop_end

SpecPool == InitPool /\ [][NextPool]_vars

----------------------------------------------------------------------------
(* The Status methods on one record, called in any sequence *)

Comments == {NoComment, MissingFilesComment, UncheckedComment,
             ExitCodeComment(IntResult(1))}

StateValues == {states.unchecked, states.not_started, states.failed,
                states.incomplete, states.succeeded}

InitStatus ==
    /\ order = <<"PreFreeSurfer">>
    /\ idx = 1
    /\ pc = "init"
    /\ status \in {[k \in Kinds |-> IF k = order[idx] THEN r ELSE defaults] :
                      r \in [num_runs : 0..(MaxRuns - 1),
                             node_status : StateValues,
                             comment : Comments]}
    /\ status0 = status
    /\ expected_outputs_spec = [k \in Kinds |-> 0]
    /\ files = {}
    /\ call_active = [k \in Kinds |-> TRUE]
    /\ check_expected_outputs_active = [k \in Kinds |-> TRUE]
    /\ remove_expected_outputs_active = [k \in Kinds |-> TRUE]
    /\ ignore_expected_outputs = [k \in Kinds |-> FALSE]
    /\ print_commands = FALSE
    /\ ignore_flag = FALSE
    /\ ncpus = 1
    /\ nfunc = 0
    /\ ustate = <<>>
    /\ ucode = <<>>
    /\ result = NoResult
    /\ raised = FALSE
    /\ args = ArgsDefault
    /\ exists = Kinds
    /\ invocation = 1
    /\ starts = [k \in Kinds |-> status[k].num_runs]
    /\ comment_arg = NoComment
    /\ ConfigIdle
    /\ ReportIdle
    /\ SefmapsIdle

notStatus == <<order, idx, status0, files, expected_outputs_spec, flags,
               ncpus, nfunc, ustate, ucode, result, raised, args, exists,
               invocation, config>>

Status_increment_run ==
    /\ status[Stage].num_runs < MaxRuns
    /\ status' = [status EXCEPT ![Stage] = increment_run(@)]
    /\ pc' = "increment_run"
    /\ UNCHANGED <<notStatus, starts, comment_arg,
                   report>>

Status_update_start_run ==
    /\ status[Stage].num_runs < MaxRuns
    /\ status' = [status EXCEPT ![Stage] = update_start_run(@)]
    /\ starts' = [starts EXCEPT ![Stage] = @ + 1]
    /\ pc' = "update_start_run"
    /\ UNCHANGED <<notStatus, comment_arg,
                   report>>

Status_update_success ==
    /\ status' = [status EXCEPT ![Stage] = update_success(@)]
    /\ pc' = "update_success"
    /\ UNCHANGED <<notStatus, starts, comment_arg,
                   report>>

Status_update_failure ==
    /\ \E c \in Comments :
          /\ status' = [status EXCEPT ![Stage] = update_failure(@, c)]
          /\ comment_arg' = c
    /\ pc' = "update_failure"
    /\ UNCHANGED <<notStatus, starts,
                   report>>

Status_update_unchecked ==
    /\ status' = [status EXCEPT ![Stage] = update_unchecked(@, UncheckedComment)]
    /\ pc' = "update_unchecked"
    /\ UNCHANGED <<notStatus, starts, comment_arg,
                   report>>

NextStatus ==
    \/ Status_increment_run
    \/ Status_update_start_run
    \/ Status_update_success
    \/ Status_update_failure
    \/ Status_update_unchecked

SpecStatus == InitStatus /\ [][NextStatus]_vars

----------------------------------------------------------------------------
(* interface from its first line: configuration, stage construction and
   slicing, run.py:439-557, then the run loop; and interface invoked again
   on the same output directory *)

\* a log directory without status.json
NoRecord == [num_runs |-> 0, node_status |-> 0, comment |-> NoComment]

\* variant of Status.__init__: the defaults are written over an existing record
Status_init_overwrite(rec, present) == defaults

\* Status.__init__, pipelines.py:405-435: the record on disk after construction
Status_init(rec, present) == IF ~present THEN defaults ELSE rec

ArgSpace == [types : SUBSET Modalities, anat_only : BOOLEAN,
             cleaning_json : BOOLEAN, file_mapper_json : BOOLEAN,
             stages : Selectors, kw : {KwDefault}, check_only : {FALSE}]

\* no status record on disk, nothing constructed
InitBegin ==
    /\ order = <<>>
    /\ idx = 1
    /\ pc = "begin"
    /\ status = [k \in Kinds |-> NoRecord]
    /\ status0 = status
    /\ exists = {}
    /\ starts = [k \in Kinds |-> 0]
    /\ invocation = 1
    /\ call_active = [k \in Kinds |-> TRUE]
    /\ check_expected_outputs_active = [k \in Kinds |-> TRUE]
    /\ remove_expected_outputs_active = [k \in Kinds |-> TRUE]
    /\ ignore_expected_outputs = [k \in Kinds |-> FALSE]
    /\ ncpus = 1
    /\ ustate = <<>>
    /\ ucode = <<>>
    /\ result = NoResult
    /\ raised = FALSE
    /\ comment_arg = NoComment
    /\ ConfigIdle
    /\ ReportIdle
    /\ SefmapsIdle

InitBuild ==
    /\ InitBegin
    /\ args \in ArgSpace
    /\ files = {}
    /\ expected_outputs_spec = [k \in Kinds |-> 0]
    /\ nfunc = 0
    /\ print_commands = FALSE
    /\ ignore_flag = FALSE

\* run.py:439-521: ParameterSettings raises without T2w (pipelines.py:132-142);
\* otherwise every stage of the list is constructed, and with it its Status
build ==
    /\ pc = "begin"
    /\ IF ParameterSettings_init(args.types).error # NoError
       THEN /\ pc' = "config_error"
            /\ UNCHANGED <<order, status, status0, exists>>
       ELSE LET run_anat == "T1w" \in args.types
                run_func == "bold" \in args.types /\ ~args.anat_only
                built == BuildOrder(run_anat, run_func, args.cleaning_json,
                                    args.file_mapper_json)
            IN  /\ order' = built
                /\ status' = [k \in Kinds |->
                                IF k \in Range(built)
                                THEN Status_init(status[k], k \in exists)
                                ELSE status[k]]
                /\ status0' = status'
                /\ exists' = exists \cup Range(built)
                /\ pc' = "slice"
    /\ UNCHANGED <<idx, files, expected_outputs_spec, flags, print_commands,
                   ignore_flag, ncpus, nfunc, ustate, ucode, result, raised,
                   args, invocation, starts, comment_arg, config,
                   report>>

\* variant of the slicing: an unknown name selects nothing instead of raising
Slice_silent(built, stages) ==
    IF Slice(built, stages).ok THEN Slice(built, stages)
    ELSE [ok |-> TRUE, order |-> <<>>]

\* run.py:524-557 applied to the built list
SliceOf(built, stages) == Slice(built, stages)

slice ==
    /\ pc = "slice"
    /\ LET s == SliceOf(order, args.stages)
       IN  IF s.ok THEN order' = s.order /\ pc' = "options"
                   ELSE pc' = "aborted" /\ UNCHANGED order
    /\ UNCHANGED <<idx, status, status0, files, expected_outputs_spec, flags,
                   print_commands, ignore_flag, ncpus, nfunc, ustate, ucode,
                   result, raised, args, exists, invocation, starts,
                   comment_arg, config,
                   report>>

NextBuild ==
    \/ build
    \/ slice

SpecBuild == InitBuild /\ [][NextBuild]_vars

\* The operator runs interface again on the same output directory: a session
\* with T1w, with or without T2w at the time, and these --stage selectors.
MaxInvocations == 2

RerunSelectors ==
    {NoSelector, <<"FreeSurfer">>, <<":", "FreeSurfer">>, <<"FreeSurfer", ":">>,
     <<"Unknown">>, <<":", "Unknown">>, <<"FreeSurfer", ":", "Unknown">>,
     <<"Unknown", ":", "FreeSurfer">>}

RerunArgs ==
    {[ArgsDefault EXCEPT !.types = m, !.stages = t] :
        m \in {{"T1w", "T2w"}, {"T1w"}}, t \in RerunSelectors}

InitRerun ==
    /\ InitBegin
    /\ args \in RerunArgs
    /\ expected_outputs_spec \in {[k \in Kinds |-> n] : n \in 0..MaxOutputs}
    /\ files = {}
    /\ nfunc = 0
    /\ print_commands \in BOOLEAN
    /\ ignore_flag = FALSE

\* a new process: the class attributes and the locals of interface start over,
\* the output directory (status records, files) is as the last one left it
reinvoke ==
    /\ pc \in {"done", "raised", "aborted", "config_error"}
    /\ invocation < MaxInvocations
    /\ invocation' = invocation + 1
    /\ args' \in RerunArgs
    /\ print_commands' \in BOOLEAN
    /\ ignore_flag' = FALSE
    /\ order' = <<>>
    /\ idx' = 1
    /\ pc' = "begin"
    /\ call_active' = [k \in Kinds |-> TRUE]
    /\ check_expected_outputs_active' = [k \in Kinds |-> TRUE]
    /\ remove_expected_outputs_active' = [k \in Kinds |-> TRUE]
    /\ ignore_expected_outputs' = [k \in Kinds |-> FALSE]
    /\ ustate' = <<>>
    /\ ucode' = <<>>
    /\ result' = NoResult
    /\ raised' = FALSE
    /\ UNCHANGED <<status, status0, files, expected_outputs_spec, ncpus, nfunc,
                   exists, starts, comment_arg, config,
                   report>>

NextRerun ==
    \/ build
    \/ slice
    \/ SpecialRuntimeOptions
    \/ setup
    \/ remove_expected_outputs
    \/ call
    \/ teardown_result
    \/ teardown_check
    \/ teardown_exit
    \/ loop_end
    \/ reinvoke

SpecRerun == InitRerun /\ [][NextRerun]_vars

----------------------------------------------------------------------------
(* One session with T1w and T2w and no bold, run in anat-only mode on a fresh
   output directory; every expected output path holds a file beforehand and
   every stage executable exits 0 *)

AnatOnlySession == {"PreFreeSurfer", "FreeSurfer", "PostFreeSurfer",
                    "ExecutiveSummary"}

InitAnatOnly ==
    /\ InitBegin
    /\ args = [ArgsDefault EXCEPT !.types = {"T1w", "T2w"},
                                  !.anat_only = TRUE]
    /\ expected_outputs_spec \in
          {[k \in Kinds |-> IF k \in AnatOnlySession THEN f[k] ELSE 0] :
              f \in [AnatOnlySession -> 0..MaxOutputs]}
    /\ files = {<<k, i>> \in Kinds \X (1..MaxOutputs) :
                   i <= expected_outputs_spec[k]}
    /\ nfunc = 0
    /\ print_commands = FALSE
    /\ ignore_flag = FALSE

\* the single call of a stage, the executable being one that exits 0; it may
\* or may not write the stage's expected outputs
call_mocked ==
    /\ pc = "call"
    /\ \E made \in SUBSET get_expected_outputs(Stage) :
          /\ Call(Stage, 0, made)
          /\ files' = files \cup made
          /\ result' = IntResult(0)
    /\ pc' = "teardown"
    /\ UNCHANGED <<idx, status, ustate, ucode, raised, flags, inputs, starts,
                   report>>

NextAnatOnly ==
    \/ build
    \/ slice
    \/ SpecialRuntimeOptions
    \/ setup
    \/ remove_expected_outputs
    \/ call_mocked
    \/ teardown_result
    \/ teardown_check
    \/ teardown_exit
    \/ loop_end

SpecAnatOnly == InitAnatOnly /\ [][NextAnatOnly]_vars

----------------------------------------------------------------------------
(* The session specification of one session: run.py:448-494 for every set of
   file suffixes a session can hold, with and without the user's dcmethod *)

ConfigArgs ==
    {[ArgsDefault EXCEPT !.types = t, !.anat_only = a,
                         !.kw = [KwDefault EXCEPT !.dcmethod = m]] :
        t \in SUBSET Suffixes, a \in BOOLEAN,
        m \in {None} \cup OptionValues("dcmethod")}

InitConfig ==
    /\ InitBegin
    /\ args \in ConfigArgs
    /\ files = {}
    /\ expected_outputs_spec = [k \in Kinds |-> 0]
    /\ nfunc = 0
    /\ print_commands = FALSE
    /\ ignore_flag = FALSE

notConfig == <<order, idx, status, status0, files, expected_outputs_spec,
               flags, ncpus, nfunc, ustate, ucode, result, raised, args,
               exists, invocation, starts, comment_arg>>

\* run.py:448: session_spec = ParameterSettings(session, out_dir)
construct ==
    /\ pc = "begin"
    /\ LET made == ParameterSettings_init(args.types)
       IN  IF made.error # NoError
           THEN /\ session_spec' = [NoSpec EXCEPT !.error = made.error]
                /\ pc' = "config_error"
           ELSE /\ session_spec' = [made |-> TRUE, error |-> NoError,
                                    inst |-> NewInstance(args.types)]
                /\ pc' = "configure"
    /\ UNCHANGED <<notConfig, class_attrs, environ, params, sefmaps,
                   report>>

\* run.py:450-494: the setter calls
configure ==
    /\ pc = "configure"
    /\ session_spec' =
          [session_spec EXCEPT
              !.inst = Configure(@, args.anat_only, args.kw)]
    /\ pc' = "stages"
    /\ UNCHANGED <<notConfig, class_attrs, environ, params, sefmaps,
                   report>>

NextConfig ==
    \/ construct
    \/ configure

SpecConfig == InitConfig /\ [][NextConfig]_vars

----------------------------------------------------------------------------
(* _get_intended_sefmaps, pipelines.py:780-805 and 923-948, for a session with
   a spin echo pair: the two searches and the return *)

\* the sidecar lists of one direction, up to MaxFmaps entries
MetadataLists == UNION {[1..n -> BOOLEAN] : n \in 0..MaxFmaps}

InitSefmaps ==
    /\ order = <<"PreFreeSurfer">>
    /\ idx = 1
    /\ pc = "positive"
    /\ status = [k \in Kinds |-> NoRecord]
    /\ status0 = status
    /\ exists = {}
    /\ starts = [k \in Kinds |-> 0]
    /\ invocation = 1
    /\ files = {}
    /\ expected_outputs_spec = [k \in Kinds |-> 0]
    /\ call_active = [k \in Kinds |-> TRUE]
    /\ check_expected_outputs_active = [k \in Kinds |-> TRUE]
    /\ remove_expected_outputs_active = [k \in Kinds |-> TRUE]
    /\ ignore_expected_outputs = [k \in Kinds |-> FALSE]
    /\ print_commands = FALSE
    /\ ignore_flag = FALSE
    /\ ncpus = 1
    /\ nfunc = 0
    /\ ustate = <<>>
    /\ ucode = <<>>
    /\ result = NoResult
    /\ raised = FALSE
    /\ comment_arg = NoComment
    /\ args = [ArgsDefault EXCEPT !.types = {"T1w", "T2w", "epi"}]
    /\ ConfigIdle
    /\ ReportIdle
    /\ fmap_metadata \in [Directions -> MetadataLists]
    /\ loop_idx = Unbound
    /\ intended_idx = [d \in Directions |-> Unbound]
    /\ warned = {}

notSefmaps == <<order, idx, status, status0, files, expected_outputs_spec,
                flags, ncpus, nfunc, ustate, ucode, result, raised, args,
                exists, invocation, starts, comment_arg, session_spec,
                class_attrs, environ, params>>

\* the first entry whose IntendedFor names the target (1-based), 0 if none
FirstMatch(list) ==
    IF \E i \in 1..Len(list) : list[i]
    THEN CHOOSE i \in 1..Len(list) : list[i] /\ \A j \in 1..(i - 1) : ~list[j]
    ELSE 0

\* pipelines.py:797, 939: "if idx != 0", idx being what the loop left behind
NoMatchWarns(last) == last # 0

\* pipelines.py:789-801, 930-943: the for ... else of one direction.  The loop
\* leaves idx at the entry it broke on, at the last entry when nothing
\* matched, and where it was when the list is empty; reading it while it is
\* unbound raises UnboundLocalError.
search(direction, at, next) ==
    /\ pc = at
    /\ LET list == fmap_metadata[direction]
           m == FirstMatch(list)
           last == IF Len(list) = 0 THEN loop_idx ELSE Len(list) - 1
       IN  IF m # 0
           THEN /\ loop_idx' = m - 1
                /\ intended_idx' = [intended_idx EXCEPT ![direction] = m - 1]
                /\ warned' = warned
                /\ pc' = next
           ELSE IF last = Unbound
           THEN /\ pc' = "UnboundLocalError"
                /\ UNCHANGED <<loop_idx, intended_idx, warned>>
           ELSE /\ loop_idx' = last
                /\ intended_idx' = [intended_idx EXCEPT ![direction] = 0]
                /\ warned' = IF NoMatchWarns(last)
                             THEN warned \cup {direction} ELSE warned
                /\ pc' = next
    /\ UNCHANGED <<notSefmaps, fmap_metadata,
                   report>>

\* pipelines.py:803-805, 945-948: the two files are looked up by index
return_sefmaps ==
    /\ pc = "return"
    /\ pc' = IF \E d \in Directions :
                  intended_idx[d] >= Len(fmap_metadata[d])
             THEN "IndexError" ELSE "resolved"
    /\ UNCHANGED <<notSefmaps, sefmaps,
                   report>>

\* pipelines.py:789: for direction in ['positive', 'negative']
search_positive == search("positive", "positive", "negative")

search_negative == search("negative", "negative", "return")

NextSefmaps ==
    \/ search_positive
    \/ search_negative
    \/ return_sefmaps

SpecSefmaps == InitSefmaps /\ [][NextSefmaps]_vars

----------------------------------------------------------------------------
(* The session specifications of the sessions of one invocation: construction,
   the setter calls with the options of the command line, the get_params
   call of every Stage constructor (pipelines.py:494), the next session
   (run.py:429); os.environ is the process environment and may be written
   between two calls by code outside app/ *)

ParamsSessions ==
    {Modalities \cup {"epi"},
     Modalities \cup {"magnitude1", "magnitude2", "phasediff"}}

ParamsArgs ==
    {[ArgsDefault EXCEPT !.types = t, !.anat_only = a, !.kw = k] :
        t \in ParamsSessions, a \in BOOLEAN, k \in KwWith(MaxOptions)}

InitParams ==
    /\ InitBegin
    /\ args \in ParamsArgs
    /\ files = {}
    /\ expected_outputs_spec = [k \in Kinds |-> 0]
    /\ nfunc = 0
    /\ print_commands = FALSE
    /\ ignore_flag = FALSE

\* pipelines.py:261-267, called by Stage.__init__, pipelines.py:494
get_params ==
    /\ pc = "stages"
    /\ LET r == Format(class_attrs, session_spec.inst, environ)
       IN  /\ session_spec' = [session_spec EXCEPT !.inst = r.inst]
           /\ class_attrs' = r.cls
           /\ params' = [read |-> TRUE, values |-> Params(r.cls, r.inst),
                         env |-> environ]
    /\ UNCHANGED <<pc, notConfig, environ, sefmaps,
                   report>>

\* os.environ, read at pipelines.py:259: a variable gets another value
environ_change ==
    /\ pc = "stages"
    /\ \E v \in EnvVars, x \in EnvValues :
          /\ x # environ[v]
          /\ environ' = [environ EXCEPT ![v] = x]
    /\ UNCHANGED <<pc, notConfig, session_spec, class_attrs, params,
                   sefmaps,
                   report>>

\* run.py:429: the loop over the sessions goes on to the next session, with
\* the same options; the sessions of the dataset hold the same suffixes
next_session ==
    /\ pc = "stages"
    /\ pc' = "begin"
    /\ session_spec' = NoSpec
    /\ UNCHANGED <<notConfig, class_attrs, environ, params, sefmaps,
                   report>>

NextParams ==
    \/ construct
    \/ configure
    \/ get_params
    \/ environ_change
    \/ next_session

SpecParams == InitParams /\ [][NextParams]_vars

----------------------------------------------------------------------------
(* The loop over the sessions, run.py:429-581, with and without --check-only:
   every session has its own output directory, the class attributes of the
   stage classes last for the whole process *)

CheckSelectors ==
    {NoSelector, <<"FreeSurfer", ":">>, <<"Unknown">>,
     <<"FreeSurfer", ":", "PostFreeSurfer">>,
     <<"PostFreeSurfer", ":", "FreeSurfer">>,
     <<"ExecutiveSummary", ":", "PreFreeSurfer">>}

CheckArgs ==
    {[ArgsDefault EXCEPT !.types = m, !.stages = t, !.check_only = c] :
        m \in {{"T1w", "T2w"}, {"T1w"}}, t \in CheckSelectors, c \in BOOLEAN}

\* the record of a stage that an earlier invocation ran once
RanOnce == [num_runs |-> 1, node_status |-> states.succeeded,
            comment |-> NoComment]

\* the output directory of a session as an earlier invocation left it: never
\* used, or every stage run once
OutputDir ==
    /\ \/ exists = {} /\ status = [k \in Kinds |-> NoRecord]
       \/ exists = Kinds /\ status = [k \in Kinds |-> RanOnce]
    /\ files \in {{}, {<<k, i>> \in Kinds \X (1..MaxOutputs) :
                            i <= expected_outputs_spec[k]}}

InitCheckOnly ==
    /\ order = <<>>
    /\ idx = 1
    /\ pc = "begin"
    /\ expected_outputs_spec \in {[k \in Kinds |-> n] : n \in 0..MaxOutputs}
    /\ OutputDir
    /\ status0 = status
    /\ starts = [k \in Kinds |-> status[k].num_runs]
    /\ invocation = 1
    /\ call_active = [k \in Kinds |-> TRUE]
    /\ check_expected_outputs_active = [k \in Kinds |-> TRUE]
    /\ remove_expected_outputs_active = [k \in Kinds |-> TRUE]
    /\ ignore_expected_outputs = [k \in Kinds |-> FALSE]
    /\ print_commands \in BOOLEAN
    /\ ignore_flag = FALSE
    /\ ncpus = 1
    /\ nfunc = 0
    /\ ustate = <<>>
    /\ ucode = <<>>
    /\ result = NoResult
    /\ raised = FALSE
    /\ comment_arg = NoComment
    /\ args \in CheckArgs
    /\ ConfigIdle
    /\ SefmapsIdle
    /\ dne_list = {}
    /\ checked = <<>>
    /\ session = 1
    /\ nsessions \in 1..MaxSessions

\* variant of the check-only loop: a stage with a missing output ends the pass
\* with the error
check_stage_strict ==
    /\ pc = "options"
    /\ args.check_only
    /\ idx <= Len(order)
    /\ checked' = Append(checked, <<session, order[idx]>>)
    /\ dne_list' = Listing(order[idx])
    /\ idx' = idx + 1
    /\ pc' = IF check_expected_outputs(order[idx]) THEN pc ELSE "raised"
    /\ UNCHANGED <<order, status, status0, files, expected_outputs_spec, flags,
                   ncpus, nfunc, ustate, ucode, result, raised, args, exists,
                   invocation, starts, comment_arg, config, session,
                   nsessions>>

\* run.py:559-565: one turn of the check-only loop; the value returned by
\* check_expected_outputs is dropped
check_stage ==
    /\ pc = "options"
    /\ args.check_only
    /\ idx <= Len(order)
    /\ checked' = Append(checked, <<session, order[idx]>>)
    /\ dne_list' = Listing(order[idx])
    /\ idx' = idx + 1
    /\ UNCHANGED <<pc, order, status, status0, files, expected_outputs_spec,
                   flags, ncpus, nfunc, ustate, ucode, result, raised, args,
                   exists, invocation, starts, comment_arg, config, session,
                   nsessions>>

\* variant of the return: the loop over the sessions goes on
check_return_continue ==
    /\ pc = "options"
    /\ args.check_only
    /\ idx > Len(order)
    /\ pc' = "done"
    /\ UNCHANGED <<order, idx, status, status0, files, expected_outputs_spec,
                   flags, ncpus, nfunc, ustate, ucode, result, raised, args,
                   exists, invocation, starts, comment_arg, config, report>>

\* run.py:566: return, inside the loop over the sessions
check_return ==
    /\ pc = "options"
    /\ args.check_only
    /\ idx > Len(order)
    /\ pc' = "returned"
    /\ UNCHANGED <<order, idx, status, status0, files, expected_outputs_spec,
                   flags, ncpus, nfunc, ustate, ucode, result, raised, args,
                   exists, invocation, starts, comment_arg, config, report>>

\* run.py:429: the stages of a session are through, the next session is taken
\* up with its own output directory
session_done ==
    /\ pc = "done"
    /\ session < nsessions
    /\ session' = session + 1
    /\ pc' = "begin"
    /\ order' = <<>>
    /\ idx' = 1
    /\ \E used \in BOOLEAN :
          /\ exists' = IF used THEN Kinds ELSE {}
          /\ status' = [k \in Kinds |-> IF used THEN RanOnce ELSE NoRecord]
    /\ files' \in {{}, {<<k, i>> \in Kinds \X (1..MaxOutputs) :
                             i <= expected_outputs_spec[k]}}
    /\ status0' = status'
    /\ starts' = [k \in Kinds |-> status'[k].num_runs]
    /\ result' = NoResult
    /\ UNCHANGED <<expected_outputs_spec, flags, ncpus, nfunc, ustate, ucode,
                   raised, args, invocation, comment_arg, config, dne_list,
                   checked, nsessions>>

NextCheckOnly ==
    \/ build
    \/ slice
    \/ check_stage
    \/ check_return
    \/ SpecialRuntimeOptions
    \/ setup
    \/ remove_expected_outputs
    \/ call
    \/ teardown_result
    \/ teardown_check
    \/ teardown_exit
    \/ loop_end
    \/ session_done

SpecCheckOnly == InitCheckOnly /\ [][NextCheckOnly]_vars

----------------------------------------------------------------------------
(* Stage.run for the stages whose cmdline is a generator, in a session whose
   list of functional runs is empty: cmdlist is empty and pool.starmap returns
   the empty list *)

InitEmptyBatch ==
    /\ order \in {<<"FMRIVolume">>, <<"FMRISurface">>, <<"DCANBOLDProcessing">>,
                  <<"FMRIVolume", "FMRISurface">>}
    /\ ncpus \in 1..MaxNcpus
    /\ nfunc = 0
    /\ InitCommon

NextEmptyBatch ==
    \/ SpecialRuntimeOptions
    \/ setup
    \/ remove_expected_outputs
    \/ setup_call
    \/ pool_join
    \/ teardown_call
    \/ teardown_result
    \/ teardown_check
    \/ teardown_exit
    \/ loop_end

SpecEmptyBatch == InitEmptyBatch /\ [][NextEmptyBatch]_vars

----------------------------------------------------------------------------
(* Properties *)

\* the record a stage has after a run that passed
Completed(rec) ==
    [num_runs |-> rec.num_runs + 1, node_status |-> states.succeeded,
     comment |-> NoComment]

Started(k) == status[k].num_runs > status0[k].num_runs

\* the stage whose run ended last, when pc is "loop", "done" or "raised"
HasLast == pc \in {"loop", "done", "raised"} /\ (raised \/ idx > 1)

Last == IF pc = "raised" THEN order[idx] ELSE order[idx - 1]

\* some external command of the main script of stage k returned non-zero
\* in the run of k that ended last
AnyNonZero(k) ==
    IF IsGenerator(k) THEN \E u \in DOMAIN ucode : ucode[u] # 0
    ELSE result.codes # <<0>>

Missing(k) == ~(get_expected_outputs(k) \subseteq files)

\* C1: once a stage's run has raised, nothing of the session changes any
\* more: the stages after it in the list keep the record they had when the
\* loop began, the stages before it keep the record of their completed run.
C1_FatalErrorEndsTheLoop ==
    [][ /\ raised => (status' = status /\ idx' = idx /\ pc' = pc)
        /\ raised' =>
             /\ \A j \in (idx' + 1)..Len(order) :
                   status'[order[j]] = status0[order[j]]
             /\ \A j \in 1..(idx' - 1) :
                   status'[order[j]] = Completed(status0[order[j]]) ]_vars

C1_Witness == raised /\ 1 < idx /\ idx < Len(order)

\* C2: a stage whose command, or one unit of whose batch, returned non-zero
\* ends its run FAILED and raises.
C2_NonZeroExitIsFatal ==
    (HasLast /\ AnyNonZero(Last)) =>
        (status[Last].node_status = states.failed /\ raised)

\* C2 holds for the stages that do not override teardown
C2_NonZeroExitIsFatalBase ==
    (HasLast /\ ~HasExtraCalls(Last) /\ AnyNonZero(Last)) =>
        (status[Last].node_status = states.failed /\ raised)

\* C3: after a zero result, teardown ends FAILED and raises if an expected
\* output is missing, checking is active and missing outputs are not
\* ignored; otherwise it ends SUCCEEDED and does not raise.
C3_VerificationFailure ==
    [][ (pc = "exit" /\ IsZero(result)) =>
          IF Missing(Stage) /\ check_expected_outputs_active[Stage]
                /\ ~ignore_expected_outputs[Stage]
          THEN /\ status[Stage].node_status = states.failed
               /\ status[Stage].comment = MissingFilesComment
               /\ raised'
          ELSE /\ status[Stage].node_status = states.succeeded
               /\ ~raised' ]_vars

C3_Witness ==
    /\ pc = "raised"
    /\ IsZero(result)
    /\ Missing(Stage)
    /\ status[Stage].node_status = states.failed

\* C4: a stage with an empty expected-outputs list that exits zero ends
\* UNCHECKED.
C4_EmptyListIsUnchecked ==
    (HasLast /\ expected_outputs_spec[Last] = 0 /\ IsZero(result)
        /\ ~AnyNonZero(Last))
    => status[Last].node_status = states.unchecked

\* C5: run raises exactly when the record is not passing after teardown's
\* status updates.
C5_RaiseIffNotPassing ==
    [][ pc = "exit" => (raised' <=> ~succeeded(status[Stage])) ]_vars

C5_Witness == pc = "raised" /\ ~succeeded(status[Stage])

\* C6: at most one stage has a run in progress, a stage is started only
\* after all stages before it in the list have run and passed, and no stage
\* is started twice.
C6_StrictlySequential ==
    /\ Cardinality({k \in Kinds : /\ Started(k)
                                  /\ status[k].node_status = states.incomplete})
          <= 1
    /\ \A j \in 1..Len(order) :
          Started(order[j]) =>
             \A i \in 1..(j - 1) :
                Started(order[i]) /\ succeeded(status[order[i]])
    /\ \A k \in Kinds : status[k].num_runs <= status0[k].num_runs + 1

C6_Witness ==
    /\ Len(order) >= 3
    /\ idx = 3
    /\ status[order[3]].node_status = states.incomplete
    /\ \A i \in 1..2 : status[order[i]] = Completed(status0[order[i]])

Min(a, b) == IF a < b THEN a ELSE b

\* C7: the units of a batch that run at the same time are never more than
\* min(ncpus, 6).
C7_PoolBound == Cardinality(Running) <= Min(ncpus, 6)

C7_Witness ==
    /\ ncpus > 6
    /\ Cardinality(Running) = 6
    /\ \E u \in DOMAIN ustate : ustate[u] = "pending"

C9_ListAggregation ==
    [][ (pc = "teardown" /\ result.isList) =>
          status'[Stage].node_status =
             IF \A i \in 1..Len(result.codes) : result.codes[i] = 0
             THEN states.succeeded ELSE states.failed ]_vars

C9_Witness ==
    /\ pc = "check"
    /\ IsGenerator(Stage) /\ ~HasExtraCalls(Stage)
    /\ Len(ucode) = 4
    /\ Cardinality({u \in DOMAIN ucode : ucode[u] # 0}) = 1
    /\ status[Stage].node_status = states.failed

\* C10: update_start_run leaves the record with its run counter one higher
\* and its outcome INCOMPLETE, whatever the record was.
C10_StartRun ==
    [][ pc' = "update_start_run" =>
          /\ status'[Stage].num_runs = status[Stage].num_runs + 1
          /\ status'[Stage].node_status = states.incomplete ]_vars

C10_Witness ==
    /\ pc = "update_start_run"
    /\ status[Stage].num_runs = status0[Stage].num_runs + 1
    /\ status0[Stage].node_status = states.failed
    /\ status[Stage].node_status = states.incomplete

\* C11: after any sequence of Status methods, succeeded() is true exactly when
\* the stored outcome is SUCCEEDED or UNCHECKED; update_success leaves it true
\* with an empty comment, update_failure(c) leaves it false with comment c.
C11_IsPassing ==
    [][ /\ succeeded(status'[Stage]) <=>
              \/ status'[Stage].node_status = states.succeeded
              \/ status'[Stage].node_status = states.unchecked
        /\ pc' = "update_success" =>
              succeeded(status'[Stage]) /\ status'[Stage].comment = NoComment
        /\ pc' = "update_failure" =>
              /\ ~succeeded(status'[Stage])
              /\ status'[Stage].comment = comment_arg' ]_vars

C11_Witness ==
    /\ pc = "update_failure"
    /\ succeeded(status0[Stage])
    /\ status0[Stage].comment = NoComment
    /\ ~succeeded(status[Stage])
    /\ comment_arg = MissingFilesComment
    /\ status[Stage].comment = MissingFilesComment

C13_ConstructionKeepsRecord ==
    [][ pc = "begin" =>
          \A k \in Kinds :
             /\ k \in exists => status'[k] = status[k]
             /\ (k \notin exists /\ k \in exists') =>
                   /\ status'[k].num_runs = 0
                   /\ status'[k].node_status = states.not_started
                   /\ status'[k].comment = NoComment
             /\ k \notin exists' => status'[k] = status[k] ]_vars

C13_Witness ==
    /\ invocation = 2
    /\ pc = "slice"
    /\ status["PreFreeSurfer"].num_runs = 1
    /\ status["PreFreeSurfer"].node_status = states.succeeded
    /\ status["FreeSurfer"].num_runs = 1
    /\ status["FreeSurfer"].node_status = states.failed
    /\ status["FreeSurfer"].comment = MissingFilesComment
    /\ status["PostFreeSurfer"] = defaults

Terminal == {states.succeeded, states.failed, states.unchecked}

\* the edges NOT_STARTED -> INCOMPLETE -> {SUCCEEDED, FAILED, UNCHECKED} and
\* the restart of a record, from whatever outcome, as INCOMPLETE
LifecycleEdge(a, b) ==
    \/ a = b
    \/ b = states.incomplete
    \/ a = states.incomplete /\ b \in Terminal

\* C14 as stated: the outcome of every record changes only along NOT_STARTED
\* -> INCOMPLETE -> {SUCCEEDED, FAILED, UNCHECKED}; a terminal outcome is left
\* only by a new start, never for another terminal outcome.
C14_LifecycleEdgesOnly ==
    [][ \A k \in exists :
          /\ LifecycleEdge(status[k].node_status, status'[k].node_status)
          /\ status'[k].node_status # status[k].node_status
               /\ status'[k].node_status = states.incomplete =>
                  pc = "loop" /\ pc' = "remove" /\ k = order[idx] ]_vars

\* C14 amended: as above, except that within one run teardown turns SUCCEEDED
\* into FAILED when an expected output is missing; that is the only change
\* from one terminal outcome to another.
C14_LifecycleWithOverride ==
    [][ \A k \in exists :
          /\ \/ LifecycleEdge(status[k].node_status, status'[k].node_status)
             \/ /\ status[k].node_status = states.succeeded
                /\ status'[k].node_status = states.failed
                /\ status'[k].comment = MissingFilesComment
                /\ pc = "check" /\ k = order[idx]
                /\ ~(get_expected_outputs(k) \subseteq files)
          /\ status'[k].node_status # status[k].node_status
               /\ status'[k].node_status = states.incomplete =>
                  pc = "loop" /\ pc' = "remove" /\ k = order[idx] ]_vars

C14_Witness ==
    /\ invocation = 2
    /\ pc = "exit"
    /\ Stage = "PreFreeSurfer"
    /\ status0[Stage].node_status = states.failed
    /\ status0[Stage].comment = ExitCodeComment(IntResult(1))
    /\ IsZero(result)
    /\ status[Stage].node_status = states.failed
    /\ status[Stage].comment = MissingFilesComment
    /\ status[Stage].num_runs = 2

\* 1-based place of a stage name in a list of distinct names
Pos(names, x) == CHOOSE i \in 1..Len(names) : names[i] = x

\* the stages at places a..b of a list, in the order of the list
FromTo(names, a, b) == [i \in 1..(b - a + 1) |-> names[a + i - 1]]

\* C15: the selector 'S:T' with both names in the built list (S not after T)
\* yields the stages from S through T inclusive; ':T' yields the first stage
\* through T inclusive; 'S' without a colon yields S through the last stage;
\* the stages kept are in the order they had in the built list.
C15_Slicing ==
    [][ pc = "slice" =>
          LET sel == args.stages
              named(i) == sel[i] \in Range(order)
          IN  /\ (Len(sel) = 3 /\ sel[2] = ":" /\ named(1) /\ named(3)
                    /\ Pos(order, sel[1]) <= Pos(order, sel[3])) =>
                   /\ pc' = "options"
                   /\ order' = FromTo(order, Pos(order, sel[1]),
                                      Pos(order, sel[3]))
              /\ (Len(sel) = 2 /\ sel[1] = ":" /\ named(2)) =>
                   /\ pc' = "options"
                   /\ order' = FromTo(order, 1, Pos(order, sel[2]))
              /\ (Len(sel) = 1 /\ named(1)) =>
                   /\ pc' = "options"
                   /\ order' = FromTo(order, Pos(order, sel[1]), Len(order))
              /\ pc' = "options" =>
                   \A i, j \in 1..Len(order') :
                      i < j => Pos(order, order'[i]) < Pos(order, order'[j]) ]_vars

C15_Witness ==
    /\ pc = "options"
    /\ args.stages = <<"FreeSurfer", ":", "FMRISurface">>
    /\ args.cleaning_json
    /\ order = <<"FreeSurfer", "PostFreeSurfer", "FMRIVolume", "FMRISurface">>

\* C16: the selector 'S:' (a colon with nothing after it, S in the built
\* list) yields the stages from S through the last one, and raises no error.
C16_EmptyStopRunsToEnd ==
    [][ (pc = "slice" /\ Len(args.stages) = 2 /\ args.stages[2] = ":"
           /\ args.stages[1] \in Range(order)) =>
          /\ pc' = "options"
          /\ order' = FromTo(order, Pos(order, args.stages[1]), Len(order)) ]_vars

\* C17: on a list that starts with PreFreeSurfer, each of the selectors
\* 'PreFreeSurfer:ExecutiveSummary', ':ExecutiveSummary' and 'PreFreeSurfer:'
\* selects what no selector selects, the whole built list, CustomClean and
\* FileMapper included when they were added.
C17_DefaultSelectorsAreNoSelector ==
    [][ (/\ pc = "slice"
         /\ order[1] = "PreFreeSurfer"
         /\ args.stages \in {<<"PreFreeSurfer", ":", "ExecutiveSummary">>,
                              <<":", "ExecutiveSummary">>,
                              <<"PreFreeSurfer", ":">>}) =>
          /\ pc' = "options"
          /\ order' = order ]_vars

\* the selector's text before its first colon (all of it without a colon)
StartPiece(sel) ==
    IF FindColon(sel) = 0 THEN sel ELSE SubSeq(sel, 1, FindColon(sel) - 1)

\* the selector's text after its first colon
StopPiece(sel) ==
    IF FindColon(sel) = 0 THEN <<>>
    ELSE SubSeq(sel, FindColon(sel) + 1, Len(sel))

\* a non-empty piece that is not the name of a stage of the list
UnknownName(piece, names) ==
    piece # <<>> /\ ~(Len(piece) = 1 /\ piece[1] \in Range(names))

\* C18: a selector whose non-empty start or stop name is not a stage of the
\* built list makes interface raise instead of selecting nothing; no run is
\* started in that invocation, so no run counter is incremented.
C18_UnknownNameRaises ==
    [][ /\ (pc = "slice"
            /\ \/ UnknownName(StartPiece(args.stages), order)
               \/ UnknownName(StopPiece(args.stages), order)) =>
              pc' = "aborted" /\ status' = status
        /\ pc' = "aborted" =>
              \A k \in Kinds : status'[k].num_runs = status0'[k].num_runs
        /\ pc = "aborted" => status' = status /\ pc' = "begin" ]_vars

C18_Witness ==
    /\ pc = "aborted"
    /\ args.stages = <<"FreeSurfer", ":", "Unknown">>
    /\ invocation = 2
    /\ status["PreFreeSurfer"].num_runs = 1
    /\ status["FreeSurfer"].num_runs = 1

\* the order in which the claim lists the stages
ListedOrder == <<"PreFreeSurfer", "FreeSurfer", "PostFreeSurfer", "FMRIVolume",
                 "FMRISurface", "DCANBOLDProcessing", "ExecutiveSummary",
                 "CustomClean", "FileMapper">>

\* C19: the built list holds the three anatomical stages iff T1w is present,
\* the three functional stages iff bold is present and anat-only is off,
\* ExecutiveSummary always, CustomClean iff a cleaning spec was given and
\* FileMapper iff a file-mapper spec was given, each once and in that order.
C19_BuiltList ==
    [][ (pc = "begin" /\ pc' = "slice") =>
          LET in(k) == k \in Range(order')
              anat == "T1w" \in args.types
              func == "bold" \in args.types /\ ~args.anat_only
          IN  /\ \A k \in {"PreFreeSurfer", "FreeSurfer", "PostFreeSurfer"} :
                    in(k) <=> anat
              /\ \A k \in {"FMRIVolume", "FMRISurface", "DCANBOLDProcessing"} :
                    in(k) <=> func
              /\ in("ExecutiveSummary")
              /\ in("CustomClean") <=> args.cleaning_json
              /\ in("FileMapper") <=> args.file_mapper_json
              /\ \A i, j \in 1..Len(order') :
                    i < j => Pos(ListedOrder, order'[i])
                                < Pos(ListedOrder, order'[j]) ]_vars

C19_Witness ==
    /\ pc = "slice"
    /\ args.types = Modalities
    /\ args.anat_only
    /\ args.cleaning_json
    /\ ~args.file_mapper_json
    /\ order = <<"PreFreeSurfer", "FreeSurfer", "PostFreeSurfer",
                 "ExecutiveSummary", "CustomClean">>

\* C20 as stated: the anat-only run on pre-created outputs with executables
\* that exit 0 raises no fatal error and ends with exactly three status
\* records, those of the anatomical stages, all SUCCEEDED.
C20_ThreeRecordsAllSucceeded ==
    /\ ~raised
    /\ pc = "done" =>
          /\ exists = {"PreFreeSurfer", "FreeSurfer", "PostFreeSurfer"}
          /\ \A k \in exists : status[k].node_status = states.succeeded

\* C20 amended: the run constructs four status records, the anatomical
\* stages' and ExecutiveSummary's; a fatal error is raised only by a stage
\* whose expected output is missing after its command, the files created
\* beforehand having been removed by setup; a run that reaches its end
\* leaves all four records SUCCEEDED after one run each.
C20_FourRecordsSucceedIfOutputsMade ==
    /\ pc \in {"done", "raised"} =>
          exists = {"PreFreeSurfer", "FreeSurfer", "PostFreeSurfer",
                    "ExecutiveSummary"}
    /\ pc = "done" =>
          \A k \in exists :
             /\ status[k].node_status = states.succeeded
             /\ status[k].num_runs = 1
             /\ status[k].comment = NoComment
    /\ raised =>
          /\ IsZero(result)
          /\ ~(get_expected_outputs(order[idx]) \subseteq files)
          /\ status[order[idx]].comment = MissingFilesComment

C20_Witness ==
    /\ pc = "done"
    /\ \A k \in AnatOnlySession :
          /\ expected_outputs_spec[k] = 1
          /\ <<k, 1>> \in files
          /\ status[k].node_status = states.succeeded
    /\ Cardinality(exists) = 4

\* C21: a session without T2w makes the construction of the configuration
\* raise; no stage of the session is constructed before that, so no status
\* record is created, and no stage runs in that invocation.
C21_NoT2wNoStage ==
    [][ /\ (pc = "begin" /\ "T2w" \notin args.types) =>
              /\ pc' = "config_error"
              /\ exists' = exists
              /\ status' = status
        /\ pc = "config_error" =>
              /\ pc' = "begin"
              /\ exists' = exists
              /\ status' = status
              /\ starts' = starts
              /\ files' = files ]_vars

C21_Witness ==
    /\ pc = "config_error"
    /\ invocation = 1
    /\ "T2w" \notin args.types
    /\ exists = {}
    /\ \A k \in Kinds : status[k] = NoRecord

\* the distortion correction method of the session specification
Dcmethod == session_spec.inst["dcmethod"]

C23_DcmethodDomain ==
    session_spec.made => Dcmethod \in {Str("TOPUP"), Str("FIELDMAP"), None}

\* C23, amended: once the session specification is constructed, and after the
\* setter calls of the driver, dcmethod is one of the four values --dcmethod
\* accepts (TOPUP, FIELDMAP, T2_DC, NONE) or None.
C23_DcmethodChoices ==
    session_spec.made =>
        Dcmethod \in {Str("TOPUP"), Str("FIELDMAP"), Str("T2_DC"),
                      Str("NONE"), None}

C23_Witness ==
    /\ pc = "stages"
    /\ "epi" \in args.types
    /\ args.kw.dcmethod = Str("T2_DC")
    /\ Dcmethod = Str("T2_DC")

\* the session reaches the FIELDMAP branch of __init__, pipelines.py:169
InFieldmapBranch ==
    /\ pc \in {"configure", "config_error"}
    /\ "T2w" \in args.types
    /\ "epi" \notin args.types
    /\ FmapKeys(args.types) # {}

MagnitudePair == {"magnitude1", "magnitude2"} \subseteq args.types

PhasePair == {"phase1", "phase2"} \subseteq args.types

\* C24 as stated: in the FIELDMAP branch the construction succeeds only with
\* magnitude1, magnitude2 and phasediff; a single magnitude image without the
\* pair, or phase1 and phase2 without phasediff, raises NotImplementedError;
\* a magnitude or phase missing otherwise raises an Exception; and no session
\* specification has dcmethod FIELDMAP without fmapmag and fmapphase set.
C24_FieldmapBranchAsStated ==
    /\ InFieldmapBranch =>
          /\ pc = "configure" =>
                (MagnitudePair /\ "phasediff" \in args.types)
          /\ ("magnitude" \in args.types /\ ~MagnitudePair)
                => session_spec.error = Unsupported
          /\ (PhasePair /\ "phasediff" \notin args.types)
                => session_spec.error = Unsupported
          /\ (/\ ~("magnitude" \in args.types /\ ~MagnitudePair)
              /\ ~(PhasePair /\ "phasediff" \notin args.types)
              /\ (~MagnitudePair \/ "phasediff" \notin args.types))
                => session_spec.error \in {MagnitudeError, PhaseError}
    /\ (session_spec.made /\ Dcmethod = Str("FIELDMAP")) =>
          /\ session_spec.inst["fmapmag"] # None
          /\ session_spec.inst["fmapphase"] # None

\* C24, amended: in the FIELDMAP branch the magnitude images are examined
\* before the phase images.  Without the magnitude1/magnitude2 pair the
\* construction raises NotImplementedError when there is a single magnitude
\* image and the magnitude Exception otherwise, whatever phase images there
\* are; with the pair it succeeds with phasediff, raises NotImplementedError
\* with phase1 and phase2 but no phasediff, and the phase Exception otherwise.
\* A session specification whose dcmethod is FIELDMAP by inference has fmapmag
\* and fmapphase set; one that is FIELDMAP by the user's --dcmethod may not.
C24_FieldmapBranch ==
    /\ InFieldmapBranch =>
          /\ pc = "configure" <=>
                (MagnitudePair /\ "phasediff" \in args.types)
          /\ (~MagnitudePair /\ "magnitude" \in args.types)
                => session_spec.error = Unsupported
          /\ (~MagnitudePair /\ "magnitude" \notin args.types)
                => session_spec.error = MagnitudeError
          /\ (MagnitudePair /\ "phasediff" \notin args.types /\ PhasePair)
                => session_spec.error = Unsupported
          /\ (MagnitudePair /\ "phasediff" \notin args.types /\ ~PhasePair)
                => session_spec.error = PhaseError
    /\ (/\ session_spec.made
        /\ Dcmethod = Str("FIELDMAP")
        /\ args.kw.dcmethod # Str("FIELDMAP")) =>
          /\ session_spec.inst["fmapmag"] # None
          /\ session_spec.inst["fmapphase"] # None

C24_Witness ==
    /\ pc = "config_error"
    /\ FmapKeys(args.types) = {"phase1", "phase2"}
    /\ "T2w" \in args.types
    /\ "epi" \notin args.types
    /\ session_spec.error = MagnitudeError

\* the number of entries of a direction whose IntendedFor names the target
Matches(d) ==
    Cardinality({i \in 1..Len(fmap_metadata[d]) : fmap_metadata[d][i]})

\* C25: for each direction with a non-empty sidecar list, when exactly one
\* entry names the target the resolution gives its index, and when none does
\* it gives index 0 and prints the warning, whatever the length of the list.
C25_IntendedResolution ==
    \A d \in Directions :
        (intended_idx[d] # Unbound /\ Len(fmap_metadata[d]) > 0) =>
            /\ Matches(d) = 1 =>
                  fmap_metadata[d][intended_idx[d] + 1]
            /\ Matches(d) = 0 =>
                  (intended_idx[d] = 0 /\ d \in warned)

\* every field that was written with a placeholder holds the value the
\* environment env has for the variable
Resolved(values, env) ==
    \A f \in DOMAIN values :
        values[f].var # "" => values[f].val = env[values[f].var]

\* C26 as stated: get_params does not cache: a call returns every field
\* resolved against the environment of that call, also when a variable changed
\* since the call before.
C26_NoCaching == params.read => Resolved(params.values, params.env)

\* get_params was called on this session specification before: _format has
\* stored every string parameter on the instance
ReadBefore == "regname" \in DOMAIN session_spec.inst

\* C26, amended: the first get_params call on a session specification returns
\* every field resolved against the environment of that call; every later
\* call on the same session specification returns the same values, also when
\* a variable changed in between.
C26_ResolvedOnFirstRead ==
    [][ (pc = "stages" /\ pc' = "stages" /\ environ' = environ) =>
            IF ReadBefore THEN params'.values = params.values
            ELSE Resolved(params'.values, environ') ]_vars

C26_Witness ==
    /\ pc = "stages"
    /\ params.read
    /\ params.env["HCPPIPEDIR_Templates"] = "v2"
    /\ environ["HCPPIPEDIR_Templates"] = "v2"
    /\ params.values["t1template"].val = "v1"

\* the parameters as seen through the session specification
Before(f) == Params(class_attrs, session_spec.inst)[f]

After(f) == Params(class_attrs', session_spec'.inst)[f]

\* C27: formatting and setter calls on the session specification of one
\* session never change the class attributes: the class is as it was
\* imported, and a session specification constructed afterwards sees every
\* class attribute that __init__ does not assign with its placeholder.
C27_ClassDefaultsKept ==
    /\ class_attrs = ClassAttrs
    /\ pc = "configure" =>
          \A f \in DOMAIN ClassAttrs \ DOMAIN session_spec.inst :
              Before(f) = ClassAttrs[f]

C27_Witness ==
    /\ pc = "configure"
    /\ params.read
    /\ params.values["t1template"].val = "v2"
    /\ params.values["multitemplatedir"] = Str("user")
    /\ Before("t1template") = Tmpl("HCPPIPEDIR_Templates",
                                   "/INFANT_MNI_T1_1mm.nii.gz")
    /\ Before("multitemplatedir") = Tmpl("HCPPIPEDIR_Templates",
                                         "/JLF_templates")

\* the fields the setter of an option assigns
Fields(o) ==
    CASE o = "atropos_range" -> {"atropos_label_min", "atropos_label_max"}
      [] o = "bandstop" -> {"band_stop_min", "band_stop_max"}
      [] o = "hyper_norm_method" -> {"norm_method"}
      [] o = "multi_template_dir" -> {"multitemplatedir"}
      [] o = "multi_masking_dir" -> {"multimaskingdir"}
      [] o = "no_crop" -> {"crop"}
      [] o = "t1_study_template" ->
            {"t1wstudytemplate", "t1wstudytemplatebrain"}
      [] o = "t2_study_template" ->
            {"t2wstudytemplate", "t2wstudytemplatebrain"}
      [] OTHER -> {o}

\* the setters that test their value and leave the field alone when it is empty
Keeping == {"dcmethod", "t1_brain_mask", "t1_study_template",
            "t2_study_template", "multi_template_dir", "multi_masking_dir"}

\* the setters that fall back to a built-in default when the value is empty
Resetting == {"aseg", "jlf_method", "max_cortical_thickness",
              "smoothing_iterations", "subcortical_map_method"}

\* the setters that assign what they are given
Assigning == {"atropos_mask_method", "atropos_range", "bandstop",
              "hyper_norm_method", "mc_frame"}

\* C28 as stated: a setter called with an empty value (None or falsy) leaves
\* its field at the value it had before.
C28_EmptyKeepsField ==
    [][ pc = "configure" =>
          \A o \in OptionNames \ {"no_crop"} :
              ~Truthy(args.kw[o]) =>
                  \A f \in Fields(o) \cap DOMAIN ClassAttrs :
                      After(f) = Before(f) ]_vars

\* C28, amended: called with an empty value, set_templates, set_dcmethod and
\* set_t1_brain_mask leave their fields at the value they had; set_aseg,
\* set_jlf_method, set_max_cortical_thickness, set_smoothing_iterations and
\* set_subcortical_map_method put their built-in default; and
\* set_atropos_mask_method, set_atropos_range, set_bandstop_filter,
\* set_hypernormalization_method and set_mc_frame store the value they are
\* given, empty or not.  A non-empty value is stored by every one of them.
C28_EmptyBySetter ==
    [][ pc = "configure" =>
          /\ \A o \in Keeping :
                \A f \in Fields(o) :
                    After(f) = IF Truthy(args.kw[o]) THEN args.kw[o]
                               ELSE Before(f)
          /\ \A o \in Resetting :
                After(o) = IF Truthy(args.kw[o]) THEN args.kw[o]
                           ELSE ClassAttrs[o]
          /\ \A o \in Assigning :
                args.kw[o] # None =>
                    \A f \in Fields(o) : After(f) = args.kw[o] ]_vars

C28_Witness ==
    /\ pc = "stages"
    /\ ~params.read
    /\ args.kw["mc_frame"] = Str("")
    /\ session_spec.inst["mc_frame"] = Str("")

\* C29: when the removal of earlier outputs was deactivated for the stage's
\* class (as interface does in print-commands mode), setup deletes no file;
\* otherwise it deletes exactly the expected outputs of the stage that exist,
\* after update_start_run and before any command of the stage.
C29_RemovalRespectsSwitch ==
    [][ /\ pc = "remove" =>
              files' = IF remove_expected_outputs_active[Stage]
                       THEN files \ get_expected_outputs(Stage)
                       ELSE files
        /\ (pc # "remove" /\ pc' # "remove") =>
              files \subseteq files'
        /\ pc' = "remove" =>
              (pc = "loop" /\ status'[Stage].node_status = states.incomplete)
      ]_vars

\* the steps of Stage.run that go through Stage.call
CallSteps == {"setup_call", "call", "pool", "teardown_call"}

\* C30: in print-commands mode no call of any stage starts a process: the
\* single call, every unit of a batch and the extra --setup and --teardown
\* calls of DCANBOLDProcessing return 0 and nothing is written.
C30_DryRunExecutesNothing ==
    [][ (print_commands /\ pc \in CallSteps) =>
            /\ files' = files
            /\ \A u \in DOMAIN ucode' : ucode'[u] = 0
            /\ result' # result =>
                  \A i \in DOMAIN result'.codes : result'.codes[i] = 0
      ]_vars

C30_Witness ==
    /\ print_commands
    /\ pc = "teardown"
    /\ idx <= Len(order)
    /\ order[idx] = "DCANBOLDProcessing"
    /\ nfunc = MaxFunc
    /\ result = IntResult(0)
    /\ \A u \in DOMAIN ucode : ucode[u] = 0 /\ ustate[u] = "done"

CheckedAll == [i \in 1..Len(order) |-> <<session, order[i]>>]

\* C31: with --check-only the driver checks the expected outputs of every
\* stage of the sliced list and returns: no stage is set up, called or torn
\* down, the run counter and the outcome of no status record change, no file
\* changes, nothing is raised, and each check reports exactly the expected
\* outputs that do not exist
C31_CheckOnlyVerifiesOnly ==
    /\ [](args.check_only =>
            /\ pc \in {"begin", "slice", "options", "returned", "aborted",
                       "config_error"}
            /\ ~raised
            /\ result = NoResult
            /\ status = status0
            /\ \A k \in Kinds : starts[k] = status0[k].num_runs
            /\ (pc = "returned" => checked = CheckedAll))
    /\ [][args.check_only =>
            /\ files' = files
            /\ \A k \in exists :
                    /\ status'[k].num_runs = status[k].num_runs
                    /\ status'[k].node_status = status[k].node_status
            /\ (pc = "options" /\ idx <= Len(order) =>
                    /\ pc' = "options"
                    /\ dne_list' = get_expected_outputs(order[idx]) \ files)
         ]_vars

C31_Witness ==
    /\ args.check_only
    /\ pc = "returned"
    /\ Len(order) >= 2
    /\ checked = CheckedAll
    /\ exists = Kinds
    /\ files = {}
    /\ dne_list # {}

\* C40: with --check-only and several sessions the driver returns after the
\* stages of the first session: the session never advances, nothing is built
\* or checked for a later session, and nothing follows the return
C40_CheckOnlyFirstSessionOnly ==
    /\ [](args.check_only =>
            /\ session = 1
            /\ \A i \in DOMAIN checked : checked[i][1] = 1)
    /\ [][pc = "returned" => FALSE]_vars
    /\ [][args.check_only /\ pc = "options" /\ idx > Len(order) =>
            pc' = "returned"]_vars

C40_Witness ==
    /\ args.check_only
    /\ pc = "returned"
    /\ nsessions > 1
    /\ session = 1
    /\ Len(checked) > 0

\* C34: the status record is written by the driver only: while a batch is out
\* the record of the stage is as update_start_run left it and no other record
\* has changed, and outside the batch no unit is pending or running
C34_StatusQuietDuringBatch ==
    /\ pc = "pool" =>
          status = [status0 EXCEPT ![Stage] = update_start_run(status0[Stage])]
    /\ pc # "pool" => \A u \in DOMAIN ustate : ustate[u] = "done"

C34_Witness ==
    /\ pc = "pool"
    /\ Cardinality(Running) >= 2
    /\ \E u \in DOMAIN ustate : ustate[u] = "done" /\ ucode[u] # 0
    /\ status[Stage].node_status = states.incomplete

\* the stages of the list that run has left behind without raising
Passed == {order[i] : i \in 1..(idx - 1)}

\* C35: in a dry run every stage that run has gone through has its run counter
\* one higher than before and is SUCCEEDED, whatever the disk holds, and the
\* run never raises: at the end this is so for every stage of the list
C35_DryRunMutatesStatus ==
    print_commands =>
        /\ ~raised
        /\ pc # "raised"
        /\ pc \in {"loop", "done"} =>
              \A k \in Passed :
                  /\ status[k].num_runs = status0[k].num_runs + 1
                  /\ status[k].node_status = states.succeeded
        /\ pc = "done" => Passed = Range(order)

C35_Witness ==
    /\ print_commands
    /\ pc = "done"
    /\ Len(order) >= 2
    /\ \E k \in Range(order) : IsGenerator(k)
    /\ \E k \in Range(order) : ~(get_expected_outputs(k) \subseteq files)
    /\ \A k \in Range(order) : status[k].node_status = states.succeeded

\* the value Stage.teardown was given is not zero, nor a list of zeros
NonZeroResult == result # NoResult /\ ~IsZero(Normalize(result))

\* C36: whatever the two verification switches are, a stage whose teardown was
\* given a non-zero result is FAILED from there on and run raises; a stage that
\* run left without raising had a zero result
C36_NonZeroNeverMasked ==
    /\ pc \in {"check", "exit", "raised"} /\ NonZeroResult =>
          status[Stage].node_status = states.failed
    /\ pc \in {"loop", "done"} /\ idx > 1 => ~NonZeroResult

C36_Witness ==
    /\ pc = "raised"
    /\ NonZeroResult
    /\ result.isList
    /\ ignore_expected_outputs[Stage]
    /\ ~(get_expected_outputs(Stage) \subseteq files)
    /\ status[Stage].node_status = states.failed

\* teardown is past its verification step for a stage that exited non-zero
\* and has an expected output missing
FailedTwice ==
    /\ pc \in {"exit", "raised"}
    /\ NonZeroResult
    /\ ~(get_expected_outputs(Stage) \subseteq files)

\* C38 as stated: after a non-zero exit with an expected output missing the
\* record's comment is the missing-files comment
C38_MissingFilesCommentLast ==
    FailedTwice => status[Stage].comment = MissingFilesComment

\* C38: after a non-zero exit with an expected output missing the record's
\* comment is the missing-files comment when missing outputs are not ignored,
\* and stays the exit-code comment when they are
C38_MissingFilesCommentUnlessIgnored ==
    FailedTwice =>
        status[Stage].comment =
            IF ignore_expected_outputs[Stage]
            THEN ExitCodeComment(result) ELSE MissingFilesComment

C38_Witness ==
    /\ FailedTwice
    /\ ~ignore_expected_outputs[Stage]
    /\ status[Stage].comment = MissingFilesComment
    /\ status[Stage].node_status = states.failed

\* the list interface builds from its arguments, before the slicing
Built ==
    BuildOrder("T1w" \in args.types,
               "bold" \in args.types /\ ~args.anat_only,
               args.cleaning_json, args.file_mapper_json)

\* the list is built, the selector is S:T, both are stages of the built list,
\* S comes after T
ReversedRange ==
    /\ ParameterSettings_init(args.types).error = NoError
    /\ Len(args.stages) = 3
    /\ args.stages[2] = ":"
    /\ args.stages[1] \in Range(Built)
    /\ args.stages[3] \in Range(Built)
    /\ Index(Built, args.stages[1]) > Index(Built, args.stages[3])

\* C39: with a range S:T whose S comes after T in the built list the sliced
\* list is empty: interface aborts nowhere and raises nothing, no stage is set
\* up, called or torn down, and every status record stays as construction
\* left it
C39_ReversedRangeRunsNothing ==
    ReversedRange =>
        /\ pc \in {"begin", "slice", "options", "loop", "done", "returned"}
        /\ ~raised
        /\ pc \notin {"begin", "slice"} => order = <<>>
        /\ status = status0
        /\ \A k \in Kinds : starts[k] = status0[k].num_runs
        /\ result = NoResult

C39_Witness ==
    /\ ReversedRange
    /\ ~args.check_only
    /\ pc = "done"
    /\ order = <<>>
    /\ Len(Built) >= 3
    /\ status["FreeSurfer"] = RanOnce

\* C37 as stated: a fan-out stage with no commands is SUCCEEDED when teardown
\* has recorded its result, and after the verification it is SUCCEEDED exactly
\* when the verification passed
C37_EmptyBatchSucceeds ==
    /\ pc = "check" => status[Stage].node_status = states.succeeded
    /\ pc = "exit" =>
          (status[Stage].node_status = states.succeeded
              <=> check_expected_outputs(Stage))

\* C37: a fan-out stage with no commands gets the empty list from the batch.
\* Where the stage makes no call of its own in teardown, Stage.teardown takes
\* the empty list for 0 and the stage is SUCCEEDED subject only to the
\* verification; where it does (DCANBOLDProcessing), the exit code of that
\* call has replaced the list and decides
C37_EmptyBatchSucceedsUnlessOwnCall ==
    /\ pc = "teardown_call" => result = ListResult(<<>>)
    /\ pc = "teardown" /\ ~HasExtraCalls(Stage) => result = ListResult(<<>>)
    /\ pc = "check" =>
          /\ ~HasExtraCalls(Stage) => result = IntResult(0)
          /\ status[Stage].node_status = states.succeeded <=> IsZero(result)
    /\ pc = "exit" =>
          (status[Stage].node_status = states.succeeded
              <=> IsZero(result) /\ check_expected_outputs(Stage))

C37_Witness ==
    /\ pc = "exit"
    /\ Stage = "FMRIVolume"
    /\ nfunc = 0
    /\ ustate = <<>>
    /\ result = IntResult(0)
    /\ get_expected_outputs(Stage) # {}
    /\ check_expected_outputs_active[Stage]
    /\ status[Stage].node_status = states.succeeded

====
